---------------------------- MODULE Spec2Model ----------------------------
(***************************************************************************)
(* Content classification, paid-resource deduplication and price           *)
(* comparison of the celebrity crawler: src/lib/utils/deduplication.ts,    *)
(* src/lib/utils/classifier.ts and src/lib/crawlers/paid/index.ts.         *)
(*                                                                         *)
(* Texts are sequences of one-character strings, so that normalisation     *)
(* (lower-casing, stripping of punctuation, splitting on white space,      *)
(* dropping of short tokens) is computed and not assumed.  JavaScript      *)
(* numbers that hold similarities and scores are exact rationals           *)
(* [n |-> numerator, d |-> denominator] with d > 0.                        *)
(***************************************************************************)
EXTENDS Integers, Sequences, FiniteSets, TLC

VARIABLES
    pc,          \* "start", or the operation that has run
    str1, str2,  \* the two arguments of calculateSimilarity
    simResult,   \* [ab, ba]: calculateSimilarity(str1,str2) and (str2,str1)
    paidResource,   \* the PaidResource handed to isDuplicateContent
    freeContents,   \* the free corpus: a sequence of ContentItem
    dupeCheck,      \* what isDuplicateContent returned
    paidComparisons,   \* the candidates: a sequence of PriceComparison
    coverage,          \* the CoverageAnalysis handed to filterPaidResources
    filterResult,      \* what filterPaidResources returned
    source, type, metadata,   \* the arguments of ContentClassifier.classify
    classification,           \* {priority, weight} as classify returned it
    resources,         \* the PaidResources handed to the price comparison
    crawled,           \* per resource, what crawler.comparePrices answers
    priceComparison,   \* what getPriceComparison returned
    lookups,     \* per platform, how getPriceFromPlatform ends
    report,      \* the lines generateDeduplicationReport returned
    tasks,       \* the crawlTask table
    logs,        \* the crawlLog table
    runners      \* the startCrawling calls in flight

simVars == <<str1, str2, simResult>>

dupVars == <<paidResource, dupeCheck>>

filterVars == <<paidComparisons, coverage, filterResult>>

classifyVars == <<source, type, metadata, classification>>

priceVars == <<resources, crawled, priceComparison>>

lookupVars == <<lookups>>

reportVars == <<report>>

crawlVars == <<tasks, logs, runners>>

restVars == <<lookupVars, reportVars, crawlVars>>

vars ==
    <<pc, simVars, freeContents, dupVars, filterVars, classifyVars, priceVars,
      restVars>>

\* the value of a variable no operation has set yet
None == "none"

\* the JavaScript value undefined where a text may stand: a sequence that is
\* no text, so that it compares with texts
Undefined == <<"undefined">>

\* the place of a ContentItem in the corpus stands for the reference to it,
\* and 0 for null
Null == 0

-----------------------------------------------------------------------------
(* Rational numbers                                                        *)

Rat(n, d) == [n |-> n, d |-> d]

Zero == Rat(0, 1)

One == Rat(1, 1)

RLt(a, b) == a.n * b.d < b.n * a.d

RLe(a, b) == a.n * b.d <= b.n * a.d

REq(a, b) == a.n * b.d = b.n * a.d

RAdd(a, b) == Rat(a.n * b.d + b.n * a.d, a.d * b.d)

\* Math.max of two numbers (the first on a tie, which is the same number)
RMax(a, b) == IF RLt(a, b) THEN b ELSE a

-----------------------------------------------------------------------------
(* Characters                                                              *)

UpperCase == <<"A", "B", "C", "D", "E", "F", "G", "H", "I", "J", "K", "L", "M",
               "N", "O", "P", "Q", "R", "S", "T", "U", "V", "W", "X", "Y", "Z">>

LowerCase == <<"a", "b", "c", "d", "e", "f", "g", "h", "i", "j", "k", "l", "m",
               "n", "o", "p", "q", "r", "s", "t", "u", "v", "w", "x", "y", "z">>

Digits == {"0", "1", "2", "3", "4", "5", "6", "7", "8", "9"}

\* the ideographs the texts of the model use (one character each), all
\* within U+4E00..U+9FFF
CJK == {"U+4F20", "U+8BB0"}

WhiteSpace == {" "}

Range(s) == {s[i] : i \in DOMAIN s}

\* the sequences of at most k elements of S
RECURSIVE SeqsUpTo(_, _)
SeqsUpTo(S, k) ==
    IF k = 0 THEN {<<>>}
    ELSE LET shorter == SeqsUpTo(S, k - 1)
         IN  shorter \cup {Append(q, x) : q \in shorter, x \in S}

UpperCaseChars == Range(UpperCase)

\* String.prototype.toLowerCase, one character
toLowerCaseChar(c) ==
    IF c \in UpperCaseChars
    THEN LowerCase[CHOOSE i \in DOMAIN UpperCase : UpperCase[i] = c]
    ELSE c

toLowerCase(s) == [i \in DOMAIN s |-> toLowerCaseChar(s[i])]

\* \w of a regular expression without the u flag: [A-Za-z0-9_]
WordChars == Range(LowerCase) \cup Range(UpperCase) \cup Digits \cup {"_"}

\* the characters the regular expression /[^\w\s\u4e00-\u9fff]/g leaves in place
KeptChars == WordChars \cup WhiteSpace \cup CJK

KeptChar(c) == c \in KeptChars

\* .replace(/[^\w\s\u4e00-\u9fff]/g, '')
stripPunctuation(s) == SelectSeq(s, KeptChar)

\* .split(/\s+/): the maximal runs of non-space characters, and the empty
\* string where the text starts or ends with white space (or is empty)
RECURSIVE SplitFrom(_, _, _)
SplitFrom(s, i, cur) ==
    IF i > Len(s) THEN <<cur>>
    ELSE IF s[i] \in WhiteSpace
         THEN IF i > 1 /\ s[i - 1] \in WhiteSpace
              THEN SplitFrom(s, i + 1, cur)
              ELSE <<cur>> \o SplitFrom(s, i + 1, <<>>)
         ELSE SplitFrom(s, i + 1, Append(cur, s[i]))

splitWhiteSpace(s) == SplitFrom(s, 1, <<>>)

LongToken(w) == Len(w) > 1

\* normalize of calculateSimilarity
normalize(s) ==
    SelectSeq(splitWhiteSpace(stripPunctuation(toLowerCase(s))), LongToken)

-----------------------------------------------------------------------------
(* calculateSimilarity: Jaccard similarity of the two token sets           *)

\* a faulty variant of calculateSimilarity: the intersection over the first token set
calculateSimilarityOverFirst(s1, s2) ==
    IF s1 = <<>> \/ s2 = <<>> THEN Zero
    ELSE LET words1 == Range(normalize(s1))
             words2 == Range(normalize(s2))
         IN  IF Cardinality(words1) = 0 \/ Cardinality(words2) = 0 THEN Zero
             ELSE Rat(Cardinality({w \in words1 : w \in words2}),
                      Cardinality(words1))

\* a faulty variant of calculateSimilarity: the intersection is not taken off the union
calculateSimilarityPlainSum(s1, s2) ==
    IF s1 = <<>> \/ s2 = <<>> THEN Zero
    ELSE LET words1 == Range(normalize(s1))
             words2 == Range(normalize(s2))
         IN  IF Cardinality(words1) = 0 \/ Cardinality(words2) = 0 THEN Zero
             ELSE Rat(Cardinality({w \in words1 : w \in words2}),
                      Cardinality(words1) + Cardinality(words2))

calculateSimilarity(s1, s2) ==
    IF s1 = <<>> \/ s2 = <<>> THEN Zero
    ELSE LET words1 == Range(normalize(s1))
             words2 == Range(normalize(s2))
         IN  IF Cardinality(words1) = 0 \/ Cardinality(words2) = 0 THEN Zero
             ELSE LET intersection == Cardinality({w \in words1 : w \in words2})
                      union == Cardinality(words1) + Cardinality(words2)
                                   - intersection
                  IN  Rat(intersection, union)

-----------------------------------------------------------------------------
(* The texts of the model                                                  *)

wMy == <<"m", "y">>

wLife == <<"l", "i", "f", "e">>

wStory == <<"s", "t", "o", "r", "y">>

wWords == <<"w", "o", "r", "d", "s">>

wZh == <<"U+4F20", "U+8BB0">>

sp == <<" ">>

\* "My Life"
tMyLife == <<"M", "y">> \o sp \o <<"L", "i", "f", "e">>

\* "my life story!"
tMyLifeStory == wMy \o sp \o wLife \o sp \o wStory \o <<"!">>

\* "life" and a word of two ideographs
tLifeZh == wLife \o sp \o wZh

\* "X": a title that normalizes to no token
tX == <<"X">>

\* "my life words"
tMyLifeWords == wMy \o sp \o wLife \o sp \o wWords

\* "life words"
tLifeWords == wLife \o sp \o wWords

aJaneDoe == <<"J", "a", "n", "e", " ", "D", "o", "e">>

aJaneDoeLower == toLowerCase(aJaneDoe)

aBob == <<"B", "o", "b">>

\* the titles, previews and contents of the candidates and corpora below
ModelTexts ==
    {tMyLife, tMyLifeStory, tLifeZh, tX, tMyLifeWords, tLifeWords, wZh}

\* calculateSimilarity on the texts of the model, computed once
SimilarityTable ==
    [t \in ModelTexts \X ModelTexts |-> calculateSimilarity(t[1], t[2])]

\* calculateSimilarity(s1, s2), read from the table where it holds the pair
Similarity(s1, s2) ==
    IF s1 \in ModelTexts /\ s2 \in ModelTexts
    THEN SimilarityTable[<<s1, s2>>]
    ELSE calculateSimilarity(s1, s2)

-----------------------------------------------------------------------------
(* isDuplicateContent                                                      *)

\* a JavaScript value that is neither undefined nor the empty string
Truthy(s) == s # Undefined /\ s # <<>>

\* content.title || ''
OrEmpty(s) == IF Truthy(s) THEN s ELSE <<>>

\* a faulty variant of TITLE_SIMILARITY_THRESHOLD: the content threshold in its place
TitleThresholdTooLow == Rat(6, 10)

TITLE_SIMILARITY_THRESHOLD == Rat(7, 10)

CONTENT_SIMILARITY_THRESHOLD == Rat(6, 10)

\* the title similarity above which a same-author pair is boosted
AuthorBoostFloor == Rat(1, 2)

\* what the same-author boost adds to the title similarity
AuthorBoost == Rat(2, 10)

\* the similarity a title of the candidate adds to the list, 0 standing for
\* none added
TitleSimilarityOf(paidTitle, freeTitle) ==
    IF Truthy(paidTitle) /\ Truthy(freeTitle)
    THEN Similarity(paidTitle, freeTitle)
    ELSE Zero

\* Math.max(...similarities, 0) over the titles that could be compared
calculateTitleSimilarity(paidTitle, paidTitleZh, freeTitle) ==
    RMax(RMax(TitleSimilarityOf(paidTitle, freeTitle),
              TitleSimilarityOf(paidTitleZh, freeTitle)),
         Zero)

\* (x * 100).toFixed(0): the percentage rounded to the nearest integer
Percent(x) == (200 * x.n + x.d) \div (2 * x.d)

\* the match reasons, each the sequence of the parts of its text: the label
\* and the percentage of the template literal; the empty string is <<>>
TitleReason(x) == <<"title similarity", Percent(x)>>

ContentReason(x) == <<"content similarity", Percent(x)>>

AuthorReason == <<"similar work of the same author">>

NoReason == <<>>

\* a faulty variant of SameAuthor: the authors are compared as written
SameAuthorCaseSensitive(paid, content) ==
    /\ Truthy(paid.author)
    /\ Truthy(content.author)
    /\ paid.author = content.author

\* paidResource.author.toLowerCase() === content.author.toLowerCase(),
\* both authors given
SameAuthor(paid, content) ==
    /\ Truthy(paid.author)
    /\ Truthy(content.author)
    /\ toLowerCase(paid.author) = toLowerCase(content.author)

\* a faulty variant of TitleStep: the title similarity of the item is taken
\* without the test against the running best
TitleStepLastWins(acc, i, titleSimilarity) ==
    [bestMatch |-> i,
     highestSimilarity |-> titleSimilarity,
     matchReason |-> TitleReason(titleSimilarity)]

\* step 1 of the loop body: the title similarity against the running best
TitleStep(acc, i, titleSimilarity) ==
    IF RLt(acc.highestSimilarity, titleSimilarity)
    THEN [bestMatch |-> i,
          highestSimilarity |-> titleSimilarity,
          matchReason |-> TitleReason(titleSimilarity)]
    ELSE acc

\* step 2, once the content similarity is known
ContentBetter(acc, i, contentSimilarity) ==
    IF RLt(acc.highestSimilarity, contentSimilarity)
    THEN [bestMatch |-> i,
          highestSimilarity |-> contentSimilarity,
          matchReason |-> ContentReason(contentSimilarity)]
    ELSE acc

\* step 2: the preview against the content, when both are there
ContentStep(acc, paid, content, i) ==
    IF Truthy(paid.preview) /\ Truthy(content.content)
    THEN ContentBetter(acc, i, Similarity(paid.preview, content.content))
    ELSE acc

\* step 3: the same-author boost, which leaves bestMatch alone
AuthorStep(acc, paid, content, titleSimilarity) ==
    IF SameAuthor(paid, content) /\ RLt(AuthorBoostFloor, titleSimilarity)
    THEN [acc EXCEPT
            !.highestSimilarity =
                RMax(acc.highestSimilarity, RAdd(titleSimilarity, AuthorBoost)),
            !.matchReason = AuthorReason]
    ELSE acc

\* the three steps of the loop body, in their order
DuplicateSteps(acc, paid, content, i, titleSimilarity) ==
    AuthorStep(ContentStep(TitleStep(acc, i, titleSimilarity),
                           paid, content, i),
               paid, content, titleSimilarity)

\* one iteration of for (const content of freeContents)
DuplicateStep(acc, paid, content, i) ==
    DuplicateSteps(acc, paid, content, i,
                   calculateTitleSimilarity(paid.title, paid.titleZh,
                                            OrEmpty(content.title)))

\* for (const content of freeContents): the accumulator after the first i
\* items
DuplicateLoop(paid, contents) ==
    LET after[i \in 0..Len(contents)] ==
            IF i = 0
            THEN [bestMatch |-> Null, highestSimilarity |-> Zero,
                  matchReason |-> NoReason]
            ELSE DuplicateStep(after[i - 1], paid, contents[i], i)
    IN  after[Len(contents)]

\* the decision and the object returned, from the best match of the loop
DuplicateVerdict(acc, isDuplicate) ==
    [isDuplicate |-> isDuplicate,
     matchedContent |-> acc.bestMatch,
     similarityScore |-> acc.highestSimilarity,
     matchReason |-> IF isDuplicate THEN acc.matchReason ELSE NoReason]

DuplicateReturn(acc) ==
    DuplicateVerdict(acc,
                     RLe(TITLE_SIMILARITY_THRESHOLD, acc.highestSimilarity))

isDuplicateContent(paid, contents) ==
    DuplicateReturn(DuplicateLoop(paid, contents))

-----------------------------------------------------------------------------
(* filterPaidResources                                                     *)

\* a faulty variant of mapPaidTypeToContentType: no mapping
mapPaidTypeUnmapped(paidType) == paidType

\* mapPaidTypeToContentType: mapping[paidType] || paidType
mapPaidTypeToContentType(paidType) ==
    CASE paidType = "ebook" -> "book"
      [] paidType = "audiobook" -> "book"
      [] paidType = "paper" -> "paper"
      [] paidType = "interview" -> "interview"
      [] paidType = "course" -> "course"
      [] paidType = "database" -> "database"
      [] paidType = "news_archive" -> "news"
      [] paidType = "biography_full" -> "biography"
      [] OTHER -> paidType

\* coverage.missingHighPriorityTypes.includes(resourceType)
Includes(list, x) == \E i \in DOMAIN list : list[i] = x

\* the relevance below which a candidate of priority 3 to 5 is skipped
RelevanceFloor == Rat(8, 10)

\* a faulty variant of RelevanceTooLow: a relevance of exactly 0.8 is skipped too
RelevanceTooLowInclusive(resource) ==
    RLe(resource.relevanceScore, RelevanceFloor)

\* resource.relevanceScore < 0.8
RelevanceTooLow(resource) == RLt(resource.relevanceScore, RelevanceFloor)

\* the reasons of the filtered list, each the sequence of the parts of its
\* text
DuplicateReason(matchReason) == <<"duplicate of free content">> \o matchReason

EnoughPrimaryReason(resource) ==
    <<"enough primary content, skipping priority", resource.priority>>

LowRelevanceReason(resource) ==
    <<"priority with relevance too low", resource.priority,
      Percent(resource.relevanceScore)>>

\* the texts that replace the reason of a downgraded verdict
SupplementReason == <<"much primary content already, a supplement">>

NotNeededReason == <<"much primary content already, not needed">>

\* step 1, the duplicate branch: duplicateCount++, filtered.push, continue
DuplicateBranch(acc, resource, check) ==
    [acc EXCEPT
       !.duplicateCount = @ + 1,
       !.filtered = Append(@, [resource |-> resource,
                               reason |-> DuplicateReason(check.matchReason),
                               matchedFreeContent |-> check.matchedContent])]

\* a faulty variant of SkipBranch: the entry is pushed and the counter forgotten
SkipBranchUncounted(acc, resource, reason) ==
    [acc EXCEPT
       !.filtered = Append(@, [resource |-> resource, reason |-> reason,
                               matchedFreeContent |-> Null])]

\* step 2, either skip of the priority gate: lowPrioritySkipped++,
\* filtered.push without a matched item, continue
SkipBranch(acc, resource, reason) ==
    [acc EXCEPT
       !.lowPrioritySkipped = @ + 1,
       !.filtered = Append(@, [resource |-> resource, reason |-> reason,
                               matchedFreeContent |-> Null])]

\* a faulty variant of Adjusted: a filled gap raises the verdict of a
\* candidate of any priority
AdjustedWithoutPriorityTest(comparison, cov, resourceType, fillsGap) ==
    IF fillsGap
    THEN IF comparison.recommendation = "recommend"
         THEN [comparison EXCEPT
                 !.recommendation = "highly_recommend",
                 !.recommendationReason =
                     <<"fills the content gap of type", resourceType>>
                         \o comparison.recommendationReason]
         ELSE comparison
    ELSE IF cov.hasEnoughPrimaryContent /\ comparison.resource.priority > 2
    THEN IF comparison.recommendation = "highly_recommend"
         THEN [comparison EXCEPT
                 !.recommendation = "recommend",
                 !.recommendationReason = SupplementReason]
         ELSE IF comparison.recommendation = "recommend"
         THEN [comparison EXCEPT
                 !.recommendation = "optional",
                 !.recommendationReason = NotNeededReason]
         ELSE comparison
    ELSE comparison

\* step 4: the copy of the comparison with its verdict adjusted
Adjusted(comparison, cov, resourceType, fillsGap) ==
    IF fillsGap /\ comparison.resource.priority <= 2
    THEN IF comparison.recommendation = "recommend"
         THEN [comparison EXCEPT
                 !.recommendation = "highly_recommend",
                 !.recommendationReason =
                     <<"fills the content gap of type", resourceType>>
                         \o comparison.recommendationReason]
         ELSE comparison
    ELSE IF cov.hasEnoughPrimaryContent /\ comparison.resource.priority > 2
    THEN IF comparison.recommendation = "highly_recommend"
         THEN [comparison EXCEPT
                 !.recommendation = "recommend",
                 !.recommendationReason = SupplementReason]
         ELSE IF comparison.recommendation = "recommend"
         THEN [comparison EXCEPT
                 !.recommendation = "optional",
                 !.recommendationReason = NotNeededReason]
         ELSE comparison
    ELSE comparison

\* step 3: the mapped type of the candidate and whether it fills a gap
FillsGap(cov, resourceType) ==
    Includes(cov.missingHighPriorityTypes, resourceType)

AdjustedComparison(comparison, cov) ==
    Adjusted(comparison, cov,
             mapPaidTypeToContentType(comparison.resource.type),
             FillsGap(cov,
                      mapPaidTypeToContentType(comparison.resource.type)))

\* a faulty variant of RecommendBranch: the comparison is put in front
RecommendBranchUnshift(acc, comparison, cov) ==
    [acc EXCEPT
       !.recommended = <<AdjustedComparison(comparison, cov)>> \o @]

\* steps 3 to 5: recommended.push(adjustedComparison)
RecommendBranch(acc, comparison, cov) ==
    [acc EXCEPT
       !.recommended = Append(@, AdjustedComparison(comparison, cov))]

\* step 2 and what follows it, for a candidate that is no duplicate
\* a faulty variant of PriorityGate: the coverage is not asked
PriorityGateWithoutCoverage(acc, comparison, cov) ==
    IF comparison.resource.priority > 2
       /\ RelevanceTooLow(comparison.resource)
    THEN SkipBranch(acc, comparison.resource,
                    LowRelevanceReason(comparison.resource))
    ELSE RecommendBranch(acc, comparison, cov)

\* a faulty variant of PriorityGate: a seed verdict of skip is honoured
PriorityGateHonoursSkip(acc, comparison, cov) ==
    IF comparison.recommendation = "skip"
    THEN SkipBranch(acc, comparison.resource,
                    EnoughPrimaryReason(comparison.resource))
    ELSE IF comparison.resource.priority > 2
            /\ (cov.hasEnoughPrimaryContent
                    \/ RelevanceTooLow(comparison.resource))
    THEN SkipBranch(acc, comparison.resource,
                    LowRelevanceReason(comparison.resource))
    ELSE RecommendBranch(acc, comparison, cov)

PriorityGate(acc, comparison, cov) ==
    IF comparison.resource.priority > 2 /\ cov.hasEnoughPrimaryContent
    THEN SkipBranch(acc, comparison.resource,
                    EnoughPrimaryReason(comparison.resource))
    ELSE IF comparison.resource.priority > 2
            /\ RelevanceTooLow(comparison.resource)
    THEN SkipBranch(acc, comparison.resource,
                    LowRelevanceReason(comparison.resource))
    ELSE RecommendBranch(acc, comparison, cov)

\* a faulty variant of FilterBranch: the duplicate branch lacks its continue, so a
\* duplicate goes on through the priority gate
FilterBranchFallThrough(acc, comparison, cov, check) ==
    IF check.isDuplicate
    THEN PriorityGate(DuplicateBranch(acc, comparison.resource, check),
                      comparison, cov)
    ELSE PriorityGate(acc, comparison, cov)

\* the loop body, once dupeCheck is known
FilterBranch(acc, comparison, cov, check) ==
    IF check.isDuplicate
    THEN DuplicateBranch(acc, comparison.resource, check)
    ELSE PriorityGate(acc, comparison, cov)

\* one iteration of for (const comparison of paidComparisons)
FilterStep(acc, comparison, contents, cov) ==
    FilterBranch(acc, comparison, cov,
                 isDuplicateContent(comparison.resource, contents))

\* for (const comparison of paidComparisons): the accumulator after the
\* first i candidates
FilterLoop(comparisons, contents, cov) ==
    LET after[i \in 0..Len(comparisons)] ==
            IF i = 0
            THEN [recommended |-> <<>>, filtered |-> <<>>,
                  duplicateCount |-> 0, lowPrioritySkipped |-> 0]
            ELSE FilterStep(after[i - 1], comparisons[i], contents, cov)
    IN  after[Len(comparisons)]

\* the object returned, from the lists and counters of the loop
FilterReturn(acc, totalSearched) ==
    [recommended |-> acc.recommended,
     filtered |-> acc.filtered,
     stats |-> [totalSearched |-> totalSearched,
                duplicateCount |-> acc.duplicateCount,
                lowPrioritySkipped |-> acc.lowPrioritySkipped,
                recommendedCount |-> Len(acc.recommended)]]

filterPaidResources(comparisons, contents, cov) ==
    FilterReturn(FilterLoop(comparisons, contents, cov), Len(comparisons))

\* a faulty variant of SpreadCopy: let adjustedComparison = comparison, the
\* comparison of the input list itself
SameObject(comparison) == [fields |-> comparison, isInput |-> TRUE]

\* let adjustedComparison = { ...comparison }: a new object with the fields
\* of the comparison, so that the assignments of step 4 do not reach the
\* object of the input list
SpreadCopy(comparison) == [fields |-> comparison, isInput |-> FALSE]

\* the iteration of this comparison gets to step 4
ReachesAdjustment(comparison, cov, check) ==
    /\ ~check.isDuplicate
    /\ ~(/\ comparison.resource.priority > 2
         /\ \/ cov.hasEnoughPrimaryContent
            \/ RelevanceTooLow(comparison.resource))

\* a comparison of the input list as its iteration leaves it: the
\* assignments of step 4 are the only ones of the loop body
ComparisonAfter(comparison, contents, cov) ==
    IF /\ SpreadCopy(comparison).isInput
       /\ ReachesAdjustment(comparison, cov,
                            isDuplicateContent(comparison.resource, contents))
    THEN AdjustedComparison(comparison, cov)
    ELSE comparison

\* the input list as the call leaves it
ComparisonsAfter(comparisons, contents, cov) ==
    [i \in DOMAIN comparisons |->
        ComparisonAfter(comparisons[i], contents, cov)]

-----------------------------------------------------------------------------
(* ContentClassifier.classify                                              *)

\* metadata?.flag: the flag is read as true when metadata is given and holds
\* a truthy value for it
Flag(meta, flag) == meta.defined /\ flag \in meta.flags

Tier(p, w) == [priority |-> p, weight |-> w]

\* a faulty variant of SourceRule: the default case gives a tier past the fifth
SourceRuleSixthTier(src, typ, meta) ==
    CASE src = "twitter" -> Tier(1, One)
      [] src = "youtube" ->
            IF Flag(meta, "isOwnChannel") THEN Tier(1, One) ELSE Tier(1, One)
      [] src = "wikipedia" -> Tier(4, Rat(5, 10))
      [] src = "news" -> Tier(3, Rat(6, 10))
      [] src = "book" ->
            IF typ = "autobiography" \/ Flag(meta, "isSelfAuthored")
            THEN Tier(2, Rat(8, 10))
            ELSE IF typ = "biography"
            THEN IF Flag(meta, "isAuthorized")
                 THEN Tier(2, Rat(8, 10))
                 ELSE Tier(3, Rat(6, 10))
            ELSE Tier(3, Rat(6, 10))
      [] src = "podcast" -> Tier(1, One)
      [] src = "blog" ->
            IF Flag(meta, "isOwnBlog") THEN Tier(1, One)
            ELSE Tier(5, Rat(3, 10))
      [] OTHER -> Tier(6, Rat(3, 10))

\* a faulty variant of SourceRule: isAuthorized promotes a book of any type
SourceRuleAuthorizedAnyType(src, typ, meta) ==
    CASE src = "twitter" -> Tier(1, One)
      [] src = "youtube" ->
            IF Flag(meta, "isOwnChannel") THEN Tier(1, One) ELSE Tier(1, One)
      [] src = "wikipedia" -> Tier(4, Rat(5, 10))
      [] src = "news" -> Tier(3, Rat(6, 10))
      [] src = "book" ->
            IF typ = "autobiography" \/ Flag(meta, "isSelfAuthored")
            THEN Tier(2, Rat(8, 10))
            ELSE IF Flag(meta, "isAuthorized")
                 THEN Tier(2, Rat(8, 10))
                 ELSE Tier(3, Rat(6, 10))
      [] src = "podcast" -> Tier(1, One)
      [] src = "blog" ->
            IF Flag(meta, "isOwnBlog") THEN Tier(1, One)
            ELSE Tier(5, Rat(3, 10))
      [] OTHER -> Tier(5, Rat(3, 10))

\* switch (source): the baseline of the source
SourceRule(src, typ, meta) ==
    CASE src = "twitter" -> Tier(1, One)
      [] src = "youtube" ->
            IF Flag(meta, "isOwnChannel") THEN Tier(1, One) ELSE Tier(1, One)
      [] src = "wikipedia" -> Tier(4, Rat(5, 10))
      [] src = "news" -> Tier(3, Rat(6, 10))
      [] src = "book" ->
            IF typ = "autobiography" \/ Flag(meta, "isSelfAuthored")
            THEN Tier(2, Rat(8, 10))
            ELSE IF typ = "biography"
            THEN IF Flag(meta, "isAuthorized")
                 THEN Tier(2, Rat(8, 10))
                 ELSE Tier(3, Rat(6, 10))
            ELSE Tier(3, Rat(6, 10))
      [] src = "podcast" -> Tier(1, One)
      [] src = "blog" ->
            IF Flag(meta, "isOwnBlog") THEN Tier(1, One)
            ELSE Tier(5, Rat(3, 10))
      [] OTHER -> Tier(5, Rat(3, 10))

\* a faulty variant of TypeRule: the case of wiki is missing
TypeRuleWithoutWiki(typ, meta, baseline) ==
    CASE typ \in {"tweet", "reply"} -> Tier(1, One)
      [] typ = "retweet" -> Tier(1, Rat(9, 10))
      [] typ \in {"interview", "speech"} -> Tier(1, One)
      [] typ = "quote" ->
            IF Flag(meta, "verified") THEN Tier(1, Rat(95, 100))
            ELSE Tier(3, Rat(6, 10))
      [] typ \in {"news", "article"} -> Tier(3, Rat(6, 10))
      [] OTHER -> baseline

\* switch (type): the content type overwrites the baseline, or leaves it
TypeRule(typ, meta, baseline) ==
    CASE typ \in {"tweet", "reply"} -> Tier(1, One)
      [] typ = "retweet" -> Tier(1, Rat(9, 10))
      [] typ \in {"interview", "speech"} -> Tier(1, One)
      [] typ = "quote" ->
            IF Flag(meta, "verified") THEN Tier(1, Rat(95, 100))
            ELSE Tier(3, Rat(6, 10))
      [] typ = "wiki" -> Tier(4, Rat(5, 10))
      [] typ \in {"news", "article"} -> Tier(3, Rat(6, 10))
      [] OTHER -> baseline

classify(src, typ, meta) == TypeRule(typ, meta, SourceRule(src, typ, meta))

-----------------------------------------------------------------------------
(* Specification SpecSim: calculateSimilarity on bounded texts             *)

MaxWords == 2

\* the words the texts of SpecSim are joined from, with one space between
\* two words: an empty word gives leading, trailing and double spaces
SimWords == {wMy, <<"M", "!", "y">>, wZh, <<"x">>, <<>>}

RECURSIVE Texts(_, _)
Texts(words, k) ==
    IF k = 0 THEN {<<>>}
    ELSE LET shorter == Texts(words, k - 1)
         IN  shorter \cup words
                 \cup {t \o <<" ">> \o w : t \in shorter, w \in words}

SimTexts == Texts(SimWords, MaxWords)

\* the variables of calculateSimilarity when no call of it is modelled
SimIdle == str1 = <<>> /\ str2 = <<>> /\ simResult = None

\* the variables of isDuplicateContent when no call of it is modelled
DupIdle == paidResource = None /\ dupeCheck = None

\* the variables of filterPaidResources when no call of it is modelled
FilterIdle == paidComparisons = <<>> /\ coverage = None /\ filterResult = None

\* the variables of the price comparison when no call of it is modelled
PriceIdle == resources = <<>> /\ crawled = <<>> /\ priceComparison = None

LookupIdle == lookups = <<>>

ReportIdle == report = None

CrawlIdle == tasks = <<>> /\ logs = <<>> /\ runners = <<>>

RestIdle == LookupIdle /\ ReportIdle /\ CrawlIdle

\* the variables of classify when no call of it is modelled
ClassifyIdle ==
    source = None /\ type = None /\ metadata = None /\ classification = None

SimInit ==
    /\ pc = "start"
    /\ str1 \in SimTexts
    /\ str2 \in SimTexts
    /\ simResult = None
    /\ freeContents = <<>>
    /\ DupIdle
    /\ FilterIdle
    /\ ClassifyIdle
    /\ PriceIdle
    /\ RestIdle

CallCalculateSimilarity ==
    /\ pc = "start"
    /\ simResult' = [ab |-> calculateSimilarity(str1, str2),
                     ba |-> calculateSimilarity(str2, str1)]
    /\ pc' = "calculateSimilarity"
    /\ UNCHANGED <<restVars,
                   str1, str2, freeContents, dupVars, filterVars, classifyVars,
                   priceVars>>

SimNext == CallCalculateSimilarity

SpecSim == SimInit /\ [][SimNext]_vars

-----------------------------------------------------------------------------
(* Claims about calculateSimilarity, checked under SpecSim                 *)

SimDone == pc = "calculateSimilarity"

\* C8: calculateSimilarity is symmetric: similarity(a, b) = similarity(b, a).
C8_SimilaritySymmetric == SimDone => simResult.ab = simResult.ba

\* two different texts that share one of their tokens and not the other
C8_Witness ==
    /\ SimDone
    /\ str1 # str2
    /\ Cardinality(Range(normalize(str1))) # Cardinality(Range(normalize(str2)))
    /\ RLt(Zero, simResult.ab)
    /\ RLt(simResult.ab, One)

\* C9: a text with a non-empty normalized token set has similarity 1.0 to
\* itself; every similarity lies in [0, 1]; a text that is empty or
\* normalizes to no token has similarity 0 to every text.
C9_SimilarityReflexiveBounded ==
    SimDone =>
        /\ (str1 = str2 /\ normalize(str1) # <<>>) => REq(simResult.ab, One)
        /\ RLe(Zero, simResult.ab)
        /\ RLe(simResult.ab, One)
        /\ (normalize(str1) = <<>> \/ normalize(str2) = <<>>)
              => REq(simResult.ab, Zero)

\* a text of two different tokens compared with itself
C9_Witness ==
    /\ SimDone
    /\ str1 = str2
    /\ Cardinality(Range(normalize(str1))) = 2
    /\ REq(simResult.ab, One)

-----------------------------------------------------------------------------
(* Specification SpecDup: isDuplicateContent on bounded corpora            *)

MaxCorpus == 2

\* the candidates of SpecDup: type, priority and relevance play no part in
\* isDuplicateContent
DupPaidResources ==
    [title : {tMyLife, tX},
     titleZh : {Undefined, wZh},
     preview : {Undefined, tMyLifeWords},
     author : {Undefined, aJaneDoe, aBob},
     type : {"ebook"},
     priority : {2},
     relevanceScore : {Rat(9, 10)}]

DupFreeItems ==
    [title : {tMyLife, tMyLifeStory, tLifeZh, tX},
     content : {tMyLifeWords, tLifeWords},
     author : {Undefined, aJaneDoeLower},
     type : {"other"},
     priority : {4}]

DupCorpora == SeqsUpTo(DupFreeItems, MaxCorpus)

DupInit ==
    /\ pc = "start"
    /\ SimIdle
    /\ paidResource \in DupPaidResources
    /\ freeContents \in DupCorpora
    /\ dupeCheck = None
    /\ FilterIdle
    /\ ClassifyIdle
    /\ PriceIdle
    /\ RestIdle

CallIsDuplicateContent ==
    /\ pc = "start"
    /\ dupeCheck' = isDuplicateContent(paidResource, freeContents)
    /\ pc' = "isDuplicateContent"
    /\ UNCHANGED <<restVars,
                   simVars, paidResource, freeContents, filterVars, classifyVars,
                   priceVars>>

DupNext == CallIsDuplicateContent

SpecDup == DupInit /\ [][DupNext]_vars

-----------------------------------------------------------------------------
(* Specification Spec: filterPaidResources on bounded candidate lists      *)

MaxCandidates == 2

\* the highPriorityTypes of analyzeFreeContentCoverage
HighPriorityTypes ==
    <<"tweet", "interview", "speech", "biography", "book", "podcast">>

\* the candidates of Spec: a title that a corpus item may repeat or not, a
\* priority on either side of the gate, a relevance on either side of 0.8
FilterResources ==
    [id : {0},
     title : {tMyLife, tX},
     titleZh : {Undefined},
     preview : {Undefined},
     author : {Undefined},
     type : {"ebook"},
     priority : {2, 3},
     relevanceScore : {Rat(79, 100), Rat(8, 10)}]

FilterComparisons ==
    [resource : FilterResources,
     recommendation : {"recommend", "skip"},
     recommendationReason : {<<"seed reason">>}]

\* resource.id: every candidate of a list has an id of its own
WithIds(comparisons) ==
    [i \in DOMAIN comparisons |-> [comparisons[i] EXCEPT !.resource.id = i]]

\* the candidate lists of Spec
FilterLists ==
    {WithIds(q) : q \in SeqsUpTo(FilterComparisons, MaxCandidates)}

\* a corpus item of Spec with the given title
FilterFreeItem(title) ==
    [title |-> title, content |-> tLifeWords, author |-> Undefined,
     type |-> "other", priority |-> 4]

\* the corpora of Spec: none, one without a title, and one whose second item
\* has the title "My Life"
FilterCorpora ==
    {<<>>,
     <<FilterFreeItem(Undefined)>>,
     <<FilterFreeItem(tLifeZh), FilterFreeItem(tMyLife)>>}

\* the two fields of CoverageAnalysis that filterPaidResources reads
Coverages ==
    [hasEnoughPrimaryContent : BOOLEAN,
     missingHighPriorityTypes : {<<>>, HighPriorityTypes}]

Init ==
    /\ pc = "start"
    /\ SimIdle
    /\ DupIdle
    /\ paidComparisons \in FilterLists
    /\ freeContents \in FilterCorpora
    /\ coverage \in Coverages
    /\ filterResult = None
    /\ ClassifyIdle
    /\ PriceIdle
    /\ RestIdle

CallFilterPaidResources ==
    /\ pc = "start"
    /\ filterResult' = filterPaidResources(paidComparisons, freeContents,
                                           coverage)
    /\ paidComparisons' = ComparisonsAfter(paidComparisons, freeContents,
                                           coverage)
    /\ pc' = "filterPaidResources"
    /\ UNCHANGED <<restVars,
                   simVars, dupVars, freeContents, coverage, classifyVars,
                   priceVars>>

Next == CallFilterPaidResources

Spec == Init /\ [][Next]_vars

-----------------------------------------------------------------------------
(* Claims about filterPaidResources, checked under Spec                    *)

FilterDone == pc = "filterPaidResources"

\* the i-th candidate as isDuplicateContent sees it
IsDuplicate(i) ==
    isDuplicateContent(paidComparisons[i].resource, freeContents).isDuplicate

\* the i-th candidate is an entry of recommended, of filtered
InRecommended(i) ==
    \E k \in DOMAIN filterResult.recommended :
        filterResult.recommended[k].resource.id = i

InFiltered(i) ==
    \E k \in DOMAIN filterResult.filtered :
        filterResult.filtered[k].resource.id = i

\* C1: recommendedCount + duplicateCount + lowPrioritySkipped equals
\* totalSearched, and totalSearched is the number of candidates.
C1_StatsAddUp ==
    FilterDone =>
        /\ filterResult.stats.recommendedCount
             + filterResult.stats.duplicateCount
             + filterResult.stats.lowPrioritySkipped
           = filterResult.stats.totalSearched
        /\ filterResult.stats.totalSearched = Len(paidComparisons)

\* a list whose candidates leave by different ways: a duplicate next to a
\* low-priority skip or to a recommended candidate, or a skip next to a
\* recommended candidate
C1_Witness ==
    /\ FilterDone
    /\ filterResult.stats.totalSearched > 1
    /\ \/ /\ filterResult.stats.duplicateCount > 0
          /\ filterResult.stats.lowPrioritySkipped > 0
       \/ /\ filterResult.stats.duplicateCount > 0
          /\ filterResult.stats.recommendedCount > 0
       \/ /\ filterResult.stats.lowPrioritySkipped > 0
          /\ filterResult.stats.recommendedCount > 0

\* C2: a candidate that isDuplicateContent flags is no entry of recommended,
\* whatever its relevance, priority, seed verdict and the coverage; it is an
\* entry of filtered, and duplicateCount counts exactly these candidates.
C2_DuplicateNeverRecommended ==
    FilterDone =>
        /\ \A i \in DOMAIN paidComparisons :
              IsDuplicate(i) => ~InRecommended(i) /\ InFiltered(i)
        /\ filterResult.stats.duplicateCount
             = Cardinality({i \in DOMAIN paidComparisons : IsDuplicate(i)})

\* a duplicate of priority 2 with relevance 0.8, which every later step
\* would have recommended
C2_Witness ==
    /\ FilterDone
    /\ \E i \in DOMAIN paidComparisons :
          /\ IsDuplicate(i)
          /\ paidComparisons[i].resource.priority <= 2
          /\ RLe(Rat(8, 10), paidComparisons[i].resource.relevanceScore)
          /\ paidComparisons[i].recommendation = "recommend"
          /\ InFiltered(i)

\* the i-th candidate passes the priority gate
PassesGate(i) ==
    \/ paidComparisons[i].resource.priority <= 2
    \/ /\ ~coverage.hasEnoughPrimaryContent
       /\ RLe(Rat(8, 10), paidComparisons[i].resource.relevanceScore)

\* C3: a candidate that is no duplicate and has priority <= 2 is in
\* recommended; one with priority > 2 is in recommended exactly when
\* hasEnoughPrimaryContent is false and its relevance is >= 0.8, and is
\* otherwise in filtered and counted in lowPrioritySkipped.
C3_PriorityGate ==
    FilterDone =>
        /\ \A i \in DOMAIN paidComparisons :
              ~IsDuplicate(i) =>
                  /\ InRecommended(i) <=> PassesGate(i)
                  /\ InFiltered(i) <=> ~PassesGate(i)
        /\ filterResult.stats.lowPrioritySkipped
             = Cardinality({i \in DOMAIN paidComparisons :
                                ~IsDuplicate(i) /\ ~PassesGate(i)})

\* a candidate of priority 3 recommended at a relevance of exactly 0.8
C3_Witness ==
    /\ FilterDone
    /\ \E i \in DOMAIN paidComparisons :
          /\ ~IsDuplicate(i)
          /\ paidComparisons[i].resource.priority > 2
          /\ REq(paidComparisons[i].resource.relevanceScore, Rat(8, 10))
          /\ InRecommended(i)

-----------------------------------------------------------------------------
(* Specification SpecAdjust: filterPaidResources on candidates that get to  *)
(* step 4 with every seed verdict                                           *)

\* candidates of either side of priority 2, of a type that maps to a
\* high-priority type (ebook) or not (course), with each of the four
\* verdicts; their title repeats no corpus title
AdjustComparisons ==
    [resource : [id : {0}, title : {tX}, titleZh : {Undefined},
                 preview : {Undefined}, author : {Undefined},
                 type : {"ebook", "course"}, priority : {2, 3},
                 relevanceScore : {Rat(8, 10)}],
     recommendation : {"highly_recommend", "recommend", "optional", "skip"},
     recommendationReason : {<<"seed reason">>}]

AdjustLists ==
    {WithIds(q) : q \in SeqsUpTo(AdjustComparisons, MaxCandidates)}

\* coverages with no type missing, every type missing, and only a type
\* missing that no candidate maps to
AdjustCoverages ==
    [hasEnoughPrimaryContent : BOOLEAN,
     missingHighPriorityTypes : {<<>>, HighPriorityTypes, <<"interview">>}]

AdjustInit ==
    /\ pc = "start"
    /\ SimIdle
    /\ DupIdle
    /\ paidComparisons \in AdjustLists
    /\ freeContents = <<FilterFreeItem(tMyLife)>>
    /\ coverage \in AdjustCoverages
    /\ filterResult = None
    /\ ClassifyIdle
    /\ PriceIdle
    /\ RestIdle

SpecAdjust == AdjustInit /\ [][Next]_vars

\* the candidate's type as step 3 maps it
MappedType(i) ==
    CASE paidComparisons[i].resource.type = "ebook" -> "book"
      [] paidComparisons[i].resource.type = "course" -> "course"

\* the candidate fills a gap and has priority 1 or 2
FillsGapWithPriority(i) ==
    /\ paidComparisons[i].resource.priority <= 2
    /\ \E j \in DOMAIN coverage.missingHighPriorityTypes :
          coverage.missingHighPriorityTypes[j] = MappedType(i)

\* the downgrade rule of step 4 applies to the candidate
DowngradeApplies(i) ==
    /\ ~FillsGapWithPriority(i)
    /\ coverage.hasEnoughPrimaryContent
    /\ paidComparisons[i].resource.priority > 2

\* reason ends with the seed reason and has a note naming the type before it
NotePrepended(reason, seedReason, resourceType) ==
    /\ Len(reason) > Len(seedReason)
    /\ SubSeq(reason, Len(reason) - Len(seedReason) + 1, Len(reason))
           = seedReason
    /\ \E j \in 1..(Len(reason) - Len(seedReason)) : reason[j] = resourceType

\* C18: for a recommended candidate of priority <= 2 whose mapped type is
\* missing, a seed verdict of recommend becomes highly_recommend with the
\* gap note before the seed reason, and every other seed verdict and its
\* reason pass unchanged; a candidate that fills no gap keeps verdict and
\* reason unless the downgrade rule applies.
C18_GapRaisesRecommend ==
    FilterDone =>
        \A k \in DOMAIN filterResult.recommended :
            LET entry == filterResult.recommended[k]
                i == entry.resource.id
                seed == paidComparisons[i]
            IN  /\ entry.resource = seed.resource
                /\ IF FillsGapWithPriority(i)
                        /\ seed.recommendation = "recommend"
                   THEN /\ entry.recommendation = "highly_recommend"
                        /\ NotePrepended(entry.recommendationReason,
                                         seed.recommendationReason,
                                         MappedType(i))
                   ELSE FillsGapWithPriority(i) \/ ~DowngradeApplies(i) =>
                            /\ entry.recommendation = seed.recommendation
                            /\ entry.recommendationReason
                                   = seed.recommendationReason

\* an ebook of priority 2 with seed verdict recommend, raised because book
\* is missing, next to a gap-filling candidate whose verdict optional passed
C18_Witness ==
    /\ FilterDone
    /\ \E k \in DOMAIN filterResult.recommended :
          /\ FillsGapWithPriority(filterResult.recommended[k].resource.id)
          /\ filterResult.recommended[k].recommendation = "highly_recommend"
          /\ Len(filterResult.recommended[k].recommendationReason) > 1
    /\ \E k \in DOMAIN filterResult.recommended :
          /\ FillsGapWithPriority(filterResult.recommended[k].resource.id)
          /\ filterResult.recommended[k].recommendation = "optional"

-----------------------------------------------------------------------------
(* Claims about isDuplicateContent, checked under SpecDup                  *)

DupDone == pc = "isDuplicateContent"

\* the title similarity of the candidate against the i-th corpus item
TitleSimOf(i) ==
    calculateTitleSimilarity(paidResource.title, paidResource.titleZh,
                             OrEmpty(freeContents[i].title))

\* the preview/content similarity against the i-th corpus item, 0 when one
\* of the two texts is missing
ContentSimOf(i) ==
    IF Truthy(paidResource.preview) /\ Truthy(freeContents[i].content)
    THEN Similarity(paidResource.preview, freeContents[i].content)
    ELSE Zero

\* the candidate and the i-th corpus item both name an author, the same one
\* when case is ignored
AuthorsEqualIgnoringCase(i) ==
    LET a == paidResource.author
        b == freeContents[i].author
    IN  /\ a # Undefined /\ a # <<>>
        /\ b # Undefined /\ b # <<>>
        /\ [k \in DOMAIN a |-> toLowerCaseChar(a[k])]
             = [k \in DOMAIN b |-> toLowerCaseChar(b[k])]

\* the i-th corpus item takes the same-author boost
Boosted(i) ==
    /\ AuthorsEqualIgnoringCase(i)
    /\ RLt(Rat(1, 2), TitleSimOf(i))

\* the best title or content similarity over the first k corpus items
RECURSIVE UnboostedBest(_)
UnboostedBest(k) ==
    IF k = 0 THEN Zero
    ELSE RMax(UnboostedBest(k - 1), RMax(TitleSimOf(k), ContentSimOf(k)))

\* C4: isDuplicate is true exactly when similarityScore >= 0.7; matchReason
\* is the empty string whenever isDuplicate is false; for the empty corpus
\* the score is 0, matchedContent is null and nothing is flagged.
C4_DuplicateIffThreshold ==
    DupDone =>
        /\ dupeCheck.isDuplicate <=> RLe(Rat(7, 10), dupeCheck.similarityScore)
        /\ ~dupeCheck.isDuplicate => dupeCheck.matchReason = <<>>
        /\ freeContents = <<>> =>
              /\ ~dupeCheck.isDuplicate
              /\ REq(dupeCheck.similarityScore, Zero)
              /\ dupeCheck.matchedContent = Null
              /\ dupeCheck.matchReason = <<>>

\* a best match below the threshold: a score in [0.6, 0.7), a matched item,
\* and the reason withheld
C4_Witness ==
    /\ DupDone
    /\ ~dupeCheck.isDuplicate
    /\ RLe(Rat(6, 10), dupeCheck.similarityScore)
    /\ dupeCheck.matchedContent # Null
    /\ dupeCheck.matchReason = <<>>

\* C5: a corpus item whose title is character for character the title of
\* the candidate makes the candidate a duplicate with similarityScore 1.0.
C5_IdenticalTitleScoresOne ==
    DupDone =>
        ((\E i \in DOMAIN freeContents :
              freeContents[i].title = paidResource.title)
         => /\ dupeCheck.isDuplicate
            /\ REq(dupeCheck.similarityScore, One))

\* C6: similarityScore lies in [0, 1], the same-author boost included.
C6_ScoreInUnitInterval ==
    DupDone =>
        /\ RLe(Zero, dupeCheck.similarityScore)
        /\ RLe(dupeCheck.similarityScore, One)

\* C7: an item of the same author (ignoring case) with title similarity
\* t > 0.5 lifts similarityScore to at least t + 0.2, which flags the
\* candidate; when no item has both the same author and t > 0.5, the score
\* is the best title or content similarity, without any boost.
C7_SameAuthorBoost ==
    DupDone =>
        /\ \A i \in DOMAIN freeContents :
              Boosted(i) =>
                  /\ RLe(RAdd(TitleSimOf(i), Rat(2, 10)),
                         dupeCheck.similarityScore)
                  /\ dupeCheck.isDuplicate
        /\ (\A i \in DOMAIN freeContents : ~Boosted(i)) =>
              REq(dupeCheck.similarityScore, UnboostedBest(Len(freeContents)))

\* flagged by the boost alone: authors that differ in case only, a title
\* similarity in (0.5, 0.7), and no title or content similarity of 0.7
C7_Witness ==
    /\ DupDone
    /\ dupeCheck.isDuplicate
    /\ RLt(UnboostedBest(Len(freeContents)), Rat(7, 10))
    /\ \E i \in DOMAIN freeContents :
          /\ Boosted(i)
          /\ paidResource.author # freeContents[i].author
          /\ RLt(TitleSimOf(i), Rat(7, 10))

\* the returned score and reason are those of the title signal of item i
ByTitleOf(i) ==
    /\ REq(dupeCheck.similarityScore, TitleSimOf(i))
    /\ dupeCheck.isDuplicate =>
           dupeCheck.matchReason[1] = "title similarity"

\* the returned score and reason are those of the content signal of item i
ByContentOf(i) ==
    /\ Truthy(paidResource.preview) /\ Truthy(freeContents[i].content)
    /\ REq(dupeCheck.similarityScore, ContentSimOf(i))
    /\ dupeCheck.isDuplicate =>
           dupeCheck.matchReason[1] = "content similarity"

\* the returned score and reason are those of the boosted title of item i
ByBoostOf(i) ==
    /\ Boosted(i)
    /\ REq(dupeCheck.similarityScore, RAdd(TitleSimOf(i), Rat(2, 10)))
    /\ dupeCheck.isDuplicate =>
           dupeCheck.matchReason = <<"similar work of the same author">>

\* C17: matchedContent is the corpus item one of whose three signals equals
\* the returned similarityScore, and for a duplicate matchReason names that
\* signal.
C17_MatchedContentProducedScore ==
    DupDone /\ dupeCheck.matchedContent # Null =>
        \/ ByTitleOf(dupeCheck.matchedContent)
        \/ ByContentOf(dupeCheck.matchedContent)
        \/ ByBoostOf(dupeCheck.matchedContent)

-----------------------------------------------------------------------------
(* Specification SpecClassify: classify on every source, type and metadata *)

DataSources ==
    {"twitter", "youtube", "wikipedia", "news", "book", "podcast", "blog"}

ContentTypes ==
    {"tweet", "retweet", "reply", "interview", "speech", "podcast_episode",
     "biography", "autobiography", "article", "news", "wiki", "blog_post",
     "quote", "other"}

\* the metadata keys that classify reads
MetadataFlags ==
    {"isOwnChannel", "isSelfAuthored", "isAuthorized", "isOwnBlog", "verified"}

\* metadata left out of the call
NoMetadata == [defined |-> FALSE, flags |-> {}]

\* a metadata object, by the set of the keys it holds a truthy value for
Metadatas ==
    {NoMetadata} \cup [defined : {TRUE}, flags : SUBSET MetadataFlags]

\* a source and a type outside the two enumerations, as a cast can deliver
\* them
UnknownSource == "rss"

UnknownType == "video"

ClassifyInit ==
    /\ pc = "start"
    /\ SimIdle
    /\ freeContents = <<>>
    /\ DupIdle
    /\ FilterIdle
    /\ source \in DataSources \cup {UnknownSource}
    /\ type \in ContentTypes \cup {UnknownType}
    /\ metadata \in Metadatas
    /\ classification = None
    /\ PriceIdle
    /\ RestIdle

CallClassify ==
    /\ pc = "start"
    /\ classification' = classify(source, type, metadata)
    /\ pc' = "classify"
    /\ UNCHANGED <<restVars,
                   simVars, freeContents, dupVars, filterVars, source, type,
                   metadata, priceVars>>

ClassifyNext == CallClassify

SpecClassify == ClassifyInit /\ [][ClassifyNext]_vars

-----------------------------------------------------------------------------
(* Claims about classify, checked under SpecClassify                       *)

ClassifyDone == pc = "classify"

\* C10: for every source, content type and metadata, those outside the
\* enumerations and absent metadata included, classify returns a priority
\* in {1,2,3,4,5} and a weight in [0, 1].
C10_TierInRange ==
    ClassifyDone =>
        /\ classification.priority \in 1..5
        /\ RLe(Zero, classification.weight)
        /\ RLe(classification.weight, One)

\* a source and a type outside the enumerations, without metadata: the
\* default of the source switch, which no type rule overwrites
C10_Witness ==
    /\ ClassifyDone
    /\ source \notin DataSources
    /\ type \notin ContentTypes
    /\ metadata = NoMetadata
    /\ classification.priority = 5

\* the content types that have a case in the type switch
RuledTypes ==
    {"tweet", "reply", "retweet", "interview", "speech", "quote", "wiki",
     "news", "article"}

\* the result is the tier p with the weight n/d
IsTier(p, n, d) ==
    /\ classification.priority = p
    /\ REq(classification.weight, Rat(n, d))

HasFlag(flag) == metadata.defined /\ flag \in metadata.flags

\* C11: a content type with a type rule fixes the result for every source:
\* tweet, reply, interview, speech 1/1.0; retweet 1/0.9; quote 1/0.95 when
\* metadata.verified and 3/0.6 otherwise; wiki 4/0.5; news, article 3/0.6.
C11_TypeRuleOverridesSource ==
    ClassifyDone /\ type \in RuledTypes =>
        CASE type \in {"tweet", "reply", "interview", "speech"} ->
                 IsTier(1, 1, 1)
          [] type = "retweet" -> IsTier(1, 9, 10)
          [] type = "quote" ->
                 IF HasFlag("verified") THEN IsTier(1, 95, 100)
                 ELSE IsTier(3, 6, 10)
          [] type = "wiki" -> IsTier(4, 5, 10)
          [] type \in {"news", "article"} -> IsTier(3, 6, 10)

\* a wiki entry from twitter: the type rule gives 4/0.5 where the source
\* baseline is 1/1.0
C11_Witness ==
    /\ ClassifyDone
    /\ source = "twitter"
    /\ type = "wiki"
    /\ IsTier(4, 5, 10)

\* C15: a source outside the enumerated sources with a content type that
\* has no type rule is classified tier 4 with weight 0.5.
C15_UnknownFallsBackToFourthTier ==
    ClassifyDone /\ source \notin DataSources /\ type \notin RuledTypes =>
        IsTier(4, 5, 10)

\* C16 as stated: a book of a type without a type rule is 2/0.8 whenever
\* metadata holds isSelfAuthored or isAuthorized, and 3/0.6 otherwise.
C16_BookPromotedByMetadataAlone ==
    ClassifyDone /\ source = "book" /\ type \notin RuledTypes =>
        IF HasFlag("isSelfAuthored") \/ HasFlag("isAuthorized")
        THEN IsTier(2, 8, 10)
        ELSE IsTier(3, 6, 10)

\* C16, amended: a book of a type without a type rule is 2/0.8 when its type
\* is autobiography, or metadata holds isSelfAuthored, or its type is
\* biography and metadata holds isAuthorized; it is 3/0.6 otherwise.
C16_BookPromotion ==
    ClassifyDone /\ source = "book" /\ type \notin RuledTypes =>
        IF \/ type = "autobiography"
           \/ HasFlag("isSelfAuthored")
           \/ type = "biography" /\ HasFlag("isAuthorized")
        THEN IsTier(2, 8, 10)
        ELSE IsTier(3, 6, 10)

\* an authorized book that is no biography stays at 3/0.6
C16_Witness ==
    /\ ClassifyDone
    /\ source = "book"
    /\ type = "other"
    /\ HasFlag("isAuthorized")
    /\ ~HasFlag("isSelfAuthored")
    /\ IsTier(3, 6, 10)

-----------------------------------------------------------------------------
(* analyzeFreeContentCoverage                                              *)

\* const byPriority = { 1: 0, 2: 0, 3: 0, 4: 0, 5: 0 }
InitialByPriority == [p \in 1..5 |-> 0]

\* byPriority[content.priority] = (byPriority[content.priority] || 0) + 1
CountPriority(byPriority, p) ==
    [k \in DOMAIN byPriority \cup {p} |->
        IF k = p
        THEN (IF p \in DOMAIN byPriority THEN byPriority[p] ELSE 0) + 1
        ELSE byPriority[k]]

\* the body of freeContents.forEach
CoverageStep(acc, content) ==
    [coveredTypes |-> acc.coveredTypes \cup {content.type},
     byPriority |-> CountPriority(acc.byPriority, content.priority)]

\* freeContents.forEach: the set and the counters after the whole corpus
CoverageLoop(contents) ==
    LET after[i \in 0..Len(contents)] ==
            IF i = 0
            THEN [coveredTypes |-> {}, byPriority |-> InitialByPriority]
            ELSE CoverageStep(after[i - 1], contents[i])
    IN  after[Len(contents)]

TypeMissing(coveredTypes, t) == t \notin coveredTypes

\* a faulty variant of MissingTypes: the filter keeps every type
MissingTypesUnfiltered(coveredTypes) == HighPriorityTypes

\* highPriorityTypes.filter((type) => !coveredTypes.has(type))
MissingTypes(coveredTypes) ==
    SelectSeq(HighPriorityTypes, LAMBDA t : TypeMissing(coveredTypes, t))

\* the 10 of primaryContentCount >= 10
PrimaryContentFloor == 10

\* a faulty variant of HasEnoughPrimaryContent: more than 10 are asked for
HasEnoughPrimaryContentStrict(byPriority) ==
    byPriority[1] + byPriority[2] > PrimaryContentFloor

\* primaryContentCount = byPriority[1] + byPriority[2], and its test
HasEnoughPrimaryContent(byPriority) ==
    byPriority[1] + byPriority[2] >= PrimaryContentFloor

\* the object returned
CoverageReturn(acc, totalCount) ==
    [coveredTypes |-> acc.coveredTypes,
     byPriority |-> acc.byPriority,
     missingHighPriorityTypes |-> MissingTypes(acc.coveredTypes),
     totalCount |-> totalCount,
     hasEnoughPrimaryContent |-> HasEnoughPrimaryContent(acc.byPriority)]

analyzeFreeContentCoverage(contents) ==
    CoverageReturn(CoverageLoop(contents), Len(contents))

-----------------------------------------------------------------------------
(* Specification SpecCoverage: analyzeFreeContentCoverage on a corpus      *)

\* the longest run of equal items at the end of a corpus
MaxRun == 10

\* the items of SpecCoverage: primary and other tiers, types on and off the
\* list of high-priority types
CoverageItems ==
    [title : {Undefined}, content : {tLifeWords}, author : {Undefined},
     type : {"tweet", "biography", "other"}, priority : {1, 2, 5}]

Repeat(item, k) == [i \in 1..k |-> item]

\* the corpora of SpecCoverage: up to MaxCorpus items in any order, and then
\* up to MaxRun times one item
CoverageCorpora ==
    {q \o Repeat(item, k) : q \in SeqsUpTo(CoverageItems, MaxCorpus),
                            item \in CoverageItems, k \in 0..MaxRun}

CoverageInit ==
    /\ pc = "start"
    /\ SimIdle
    /\ DupIdle
    /\ freeContents \in CoverageCorpora
    /\ FilterIdle
    /\ ClassifyIdle
    /\ PriceIdle
    /\ RestIdle

CallAnalyzeFreeContentCoverage ==
    /\ pc = "start"
    /\ coverage' = analyzeFreeContentCoverage(freeContents)
    /\ pc' = "analyzeFreeContentCoverage"
    /\ UNCHANGED <<restVars,
                   simVars, dupVars, freeContents, paidComparisons,
                   filterResult, classifyVars, priceVars>>

CoverageNext == CallAnalyzeFreeContentCoverage

SpecCoverage == CoverageInit /\ [][CoverageNext]_vars

-----------------------------------------------------------------------------
(* Claims about analyzeFreeContentCoverage, checked under SpecCoverage     *)

CoverageDone == pc = "analyzeFreeContentCoverage"

\* the number of corpus items of tier 1 or tier 2
PrimaryItems ==
    Cardinality({i \in DOMAIN freeContents :
                     freeContents[i].priority \in {1, 2}})

\* the content types that occur in the corpus
ObservedTypes == {freeContents[i].type : i \in DOMAIN freeContents}

\* C12: hasEnoughPrimaryContent is true exactly when the corpus holds at
\* least 10 items of tier 1 or 2, whatever their types and whatever items of
\* other tiers it holds; it is false for the empty corpus.
C12_EnoughPrimaryIffTen ==
    CoverageDone =>
        /\ coverage.hasEnoughPrimaryContent <=> PrimaryItems >= 10
        /\ freeContents = <<>> => ~coverage.hasEnoughPrimaryContent

\* exactly 10 primary items of both tiers next to an item of tier 5
C12_Witness ==
    /\ CoverageDone
    /\ PrimaryItems = 10
    /\ Len(freeContents) = 11
    /\ \E i \in DOMAIN freeContents : freeContents[i].priority = 1
    /\ \E i \in DOMAIN freeContents : freeContents[i].priority = 2
    /\ coverage.hasEnoughPrimaryContent

\* C13: missingHighPriorityTypes is the reference list without the types
\* that occur in the corpus, in the order of the reference list; for the
\* empty corpus it is the whole reference list.
C13_MissingIsReferenceMinusObserved ==
    CoverageDone =>
        /\ coverage.missingHighPriorityTypes =
               SelectSeq(<<"tweet", "interview", "speech", "biography",
                           "book", "podcast">>,
                         LAMBDA t : t \notin ObservedTypes)
        /\ freeContents = <<>> =>
               coverage.missingHighPriorityTypes =
                   <<"tweet", "interview", "speech", "biography", "book",
                     "podcast">>

\* a corpus with a tweet and a biography: four types are missing
C13_Witness ==
    /\ CoverageDone
    /\ ObservedTypes = {"tweet", "biography", "other"}
    /\ coverage.missingHighPriorityTypes =
           <<"interview", "speech", "book", "podcast">>

-----------------------------------------------------------------------------
(* getPriceComparison and batchPriceComparison                             *)
(* priceInCNY is a whole number of yuan.  The place of a quote in allPrices *)
(* stands for the reference to it, and Null for null.                      *)

\* (a, b) => a.priceInCNY - b.priceInCNY
ComparePrice(a, b) == a.priceInCNY - b.priceInCNY

\* recommendOrder
RecommendOrder(level) ==
    CASE level = "highly_recommend" -> 0
      [] level = "recommend" -> 1
      [] level = "optional" -> 2
      [] level = "skip" -> 3

\* a.bestPriceChina?.priceInCNY || Infinity: undefined and 0 are falsy
PriceOrInfinity(comparison) ==
    IF comparison.bestPriceChina = Null
    THEN [infinite |-> TRUE, yuan |-> 0]
    ELSE IF comparison.allPrices[comparison.bestPriceChina].priceInCNY = 0
    THEN [infinite |-> TRUE, yuan |-> 0]
    ELSE [infinite |-> FALSE,
          yuan |-> comparison.allPrices[comparison.bestPriceChina].priceInCNY]

\* priceA - priceB as sort reads it: Infinity - Infinity is NaN, which sort
\* takes for 0
PriceDifference(priceA, priceB) ==
    IF priceA.infinite /\ priceB.infinite THEN 0
    ELSE IF priceA.infinite THEN 1
    ELSE IF priceB.infinite THEN -1
    ELSE priceA.yuan - priceB.yuan

\* the comparator of comparisons.sort
CompareComparisons(a, b) ==
    IF RecommendOrder(a.recommendation) # RecommendOrder(b.recommendation)
    THEN RecommendOrder(a.recommendation) - RecommendOrder(b.recommendation)
    ELSE PriceDifference(PriceOrInfinity(a), PriceOrInfinity(b))

\* (a, b) => a.priceInCNY - b.priceInCNY in comparePrices, where priceInCNY
\* is the exact product of price and rate: the sign of the difference
CompareConvertedPrice(a, b) ==
    IF RLt(a.priceInCNY, b.priceInCNY) THEN -1
    ELSE IF RLt(b.priceInCNY, a.priceInCNY) THEN 1
    ELSE 0

\* the comparator handed to sort: that of the quotes, that of the converted
\* quotes or that of the comparisons
Compare(comparator, a, b) ==
    IF comparator = "price" THEN ComparePrice(a, b)
    ELSE IF comparator = "converted price" THEN CompareConvertedPrice(a, b)
    ELSE CompareComparisons(a, b)

\* Array.prototype.sort puts x behind the entries that the comparator does
\* not order after it: the sort is stable
InsertSorted(sorted, x, comparator) ==
    LET k == Cardinality({j \in DOMAIN sorted :
                              Compare(comparator, sorted[j], x) <= 0})
    IN  SubSeq(sorted, 1, k) \o <<x>> \o SubSeq(sorted, k + 1, Len(sorted))

\* Array.prototype.sort(comparator)
SortWith(seq, comparator) ==
    LET sorted[i \in 0..Len(seq)] ==
            IF i = 0 THEN <<>>
            ELSE InsertSorted(sorted[i - 1], seq[i], comparator)
    IN  sorted[Len(seq)]

\* the sourceType of the three paidCrawlers
CrawlerTypes == {"ebook", "audiobook", "course"}

\* ['alipay', 'wechat', 'unionpay']
PreferredPayments == {"alipay", "wechat", "unionpay"}

\* p.supportedPayments.some((pm) => [...].includes(pm))
SupportsPreferred(p) ==
    \E k \in DOMAIN p.supportedPayments :
        p.supportedPayments[k] \in PreferredPayments

\* the callbacks of the three find calls
Wanted(callback, p) ==
    CASE callback = "available" -> p.available
      [] callback = "accessible with preferred payment" ->
             p.available /\ p.chinaAccessible /\ SupportsPreferred(p)
      [] callback = "accessible" -> p.available /\ p.chinaAccessible

\* allPrices.find(callback) || null: the first place that holds a wanted
\* quote
FirstOf(seq, callback) ==
    IF \E k \in DOMAIN seq : Wanted(callback, seq[k])
    THEN CHOOSE k \in DOMAIN seq :
             /\ Wanted(callback, seq[k])
             /\ \A j \in 1..(k - 1) : ~Wanted(callback, seq[j])
    ELSE Null

\* the prices compared: those of the resource, or the answer of the crawler
\* of its type when the resource has none
PricesOf(resource, crawlerPrices) ==
    IF resource.type \in CrawlerTypes /\ Len(resource.prices) = 0
    THEN crawlerPrices
    ELSE resource.prices

\* a faulty variant of BestPriceChina: no second find
BestPriceChinaWithoutFallback(allPrices) ==
    FirstOf(allPrices, "accessible with preferred payment")

\* allPrices.find(...) || allPrices.find(...) || null
BestPriceChina(allPrices) ==
    IF FirstOf(allPrices, "accessible with preferred payment") # Null
    THEN FirstOf(allPrices, "accessible with preferred payment")
    ELSE FirstOf(allPrices, "accessible")

\* bestPriceChina && bestPriceChina.priceInCNY <= limit
PricedUpTo(allPrices, best, limit) ==
    best # Null /\ allPrices[best].priceInCNY <= limit

generateRecommendation(resource, allPrices, best) ==
    IF /\ RLe(Rat(8, 10), resource.relevanceScore)
       /\ RLe(Rat(7, 10), resource.contentQuality)
       /\ resource.priority <= 2
    THEN IF PricedUpTo(allPrices, best, 100)
         THEN [level |-> "highly_recommend",
               reason |-> <<"own work of high relevance at a fair price">>]
         ELSE [level |-> "highly_recommend",
               reason |-> <<"own work of high relevance">>]
    ELSE IF /\ RLe(Rat(6, 10), resource.relevanceScore)
            /\ RLe(Rat(5, 10), resource.contentQuality)
    THEN IF PricedUpTo(allPrices, best, 50)
         THEN [level |-> "recommend",
               reason |-> <<"high relevance at a low price">>]
         ELSE [level |-> "recommend", reason |-> <<"high relevance">>]
    ELSE IF RLe(Rat(4, 10), resource.relevanceScore)
    THEN [level |-> "optional", reason |-> <<"medium relevance">>]
    ELSE [level |-> "skip", reason |-> <<"low relevance">>]

\* the resource after the call: allPrices.sort sorts resource.prices itself
\* when these are the prices compared
ResourceAfter(resource, allPrices) ==
    IF resource.type \in CrawlerTypes /\ Len(resource.prices) = 0
    THEN resource
    ELSE [resource EXCEPT !.prices = allPrices]

\* the object returned
ComparisonOf(resource, allPrices, recommendation) ==
    [resource |-> ResourceAfter(resource, allPrices),
     bestPrice |-> FirstOf(allPrices, "available"),
     bestPriceChina |-> BestPriceChina(allPrices),
     allPrices |-> allPrices,
     recommendation |-> recommendation.level,
     recommendationReason |-> recommendation.reason]

SortedComparison(resource, allPrices) ==
    ComparisonOf(resource, allPrices,
                 generateRecommendation(resource, allPrices,
                                        BestPriceChina(allPrices)))

getPriceComparison(resource, crawlerPrices) ==
    SortedComparison(resource,
                     SortWith(PricesOf(resource, crawlerPrices), "price"))

\* for (const resource of resources): comparisons.push(...)
AllComparisons(resourceList, crawlerAnswers) ==
    [i \in DOMAIN resourceList |->
        getPriceComparison(resourceList[i], crawlerAnswers[i])]

batchPriceComparison(resourceList, crawlerAnswers) ==
    SortWith(AllComparisons(resourceList, crawlerAnswers), "comparisons")

-----------------------------------------------------------------------------
(* BasePaidCrawler.comparePrices                                           *)
(* A platform is its place in this.platforms with its currency.  A lookup  *)
(* is how getPriceFromPlatform ends for the platform: it throws, it        *)
(* returns null, or it returns the price createPriceInfo builds.           *)

\* EXCHANGE_RATES[currency] || 1
ExchangeRate(currency) ==
    CASE currency = "USD" -> Rat(72, 10)
      [] currency = "EUR" -> Rat(78, 10)
      [] currency = "GBP" -> Rat(91, 10)
      [] OTHER -> Rat(1, 1)

\* price * rate, for a whole price
convertToCNY(price, currency) ==
    Rat(price * ExchangeRate(currency).n, ExchangeRate(currency).d)

createPriceInfo(platform, price) ==
    [platform |-> platform.id, price |-> price,
     currency |-> platform.currency,
     priceInCNY |-> convertToCNY(price, platform.currency),
     available |-> TRUE]

\* a faulty variant of Caught: the exception leaves comparePrices
Rethrown(state, k) ==
    [state EXCEPT !.queried = Append(@, k), !.threw = TRUE]

\* catch (error) { console.error(...) }
Caught(state, k) == [state EXCEPT !.queried = Append(@, k)]

\* if (price) prices.push({...price, priceInCNY: convertToCNY(...)})
Pushed(state, k, lookup) ==
    IF lookup.ends = "null"
    THEN [state EXCEPT !.queried = Append(@, k)]
    ELSE [state EXCEPT
             !.queried = Append(@, k),
             !.prices = Append(@, [lookup.price EXCEPT
                 !.priceInCNY = convertToCNY(lookup.price.price,
                                             lookup.price.currency)])]

\* one run of the body of for (const platform of this.platforms)
LookupStep(state, k, lookup) ==
    IF state.threw THEN state
    ELSE IF lookup.ends = "throws" THEN Caught(state, k)
    ELSE Pushed(state, k, lookup)

LookupLoop(outcomes) ==
    LET after[i \in 0..Len(outcomes)] ==
            IF i = 0 THEN [queried |-> <<>>, prices |-> <<>>, threw |-> FALSE]
            ELSE LookupStep(after[i - 1], i, outcomes[i])
    IN  after[Len(outcomes)]

\* return prices.sort(...), unless an exception left the loop
ComparePricesReturn(state) ==
    IF state.threw THEN state
    ELSE [state EXCEPT !.prices = SortWith(@, "converted price")]

comparePrices(outcomes) == ComparePricesReturn(LookupLoop(outcomes))

-----------------------------------------------------------------------------
(* Specification SpecLookup: comparePrices over the platforms of a crawler *)

MaxPlatforms == 3

\* platforms in yuan and in dollars by turns, as amazon_cn and amazon_com
Platform(k) ==
    [id |-> k, currency |-> IF k % 2 = 0 THEN "USD" ELSE "CNY"]

\* how a lookup may end, before the platform is known
LookupEnds == {"throws", "null", "5", "40"}

LookupOf(k, end) ==
    CASE end = "throws" -> [ends |-> "throws"]
      [] end = "null" -> [ends |-> "null"]
      [] end = "5" ->
             [ends |-> "price", price |-> createPriceInfo(Platform(k), 5)]
      [] end = "40" ->
             [ends |-> "price", price |-> createPriceInfo(Platform(k), 40)]

\* what comparePrices answers to the lookups of the state
LookupAnswer == comparePrices([k \in DOMAIN lookups |-> lookups[k].outcome])

LookupInit ==
    /\ pc = "start"
    /\ SimIdle
    /\ freeContents = <<>>
    /\ DupIdle
    /\ FilterIdle
    /\ ClassifyIdle
    /\ PriceIdle
    /\ ReportIdle
    /\ CrawlIdle
    /\ \E ends \in SeqsUpTo(LookupEnds, MaxPlatforms) :
          lookups = [k \in DOMAIN ends |->
                        [outcome |-> LookupOf(k, ends[k]), queried |-> FALSE]]

\* comparePrices(resource): the lookups made are marked, the answer is kept
\* in crawled
CallComparePrices ==
    /\ pc = "start"
    /\ lookups' = [k \in DOMAIN lookups |->
                      [lookups[k] EXCEPT !.queried =
                          \E j \in DOMAIN LookupAnswer.queried :
                              LookupAnswer.queried[j] = k]]
    /\ crawled' = <<LookupAnswer.prices>>
    /\ pc' = IF LookupAnswer.threw THEN "comparePrices threw"
             ELSE "comparePrices"
    /\ UNCHANGED <<simVars, freeContents, dupVars, filterVars, classifyVars,
                   resources, priceComparison, reportVars, crawlVars>>

LookupNext == CallComparePrices

SpecLookup == LookupInit /\ [][LookupNext]_vars

-----------------------------------------------------------------------------
(* Specification SpecQuotes: getPriceComparison on one resource            *)

MaxQuotes == 2

\* quotes at two prices, available or not, accessible or not, with and
\* without a preferred payment method
Quotes ==
    [priceInCNY : {10, 20}, available : BOOLEAN, chinaAccessible : BOOLEAN,
     supportedPayments : {<<"paypal">>, <<"visa", "wechat">>}]

QuoteLists == SeqsUpTo(Quotes, MaxQuotes)

\* a resource of the given type, relevance and prices
PricedResource(resourceType, relevance, prices) ==
    [id |-> 0, title |-> tMyLife, titleZh |-> Undefined,
     preview |-> Undefined, author |-> Undefined, type |-> resourceType,
     priority |-> 2, relevanceScore |-> relevance,
     contentQuality |-> Rat(8, 10), prices |-> prices]

\* a resource with prices of its own, or without and with what the crawler
\* of its type would answer; paper has no crawler
QuotesInit ==
    /\ pc = "start"
    /\ SimIdle
    /\ freeContents = <<>>
    /\ DupIdle
    /\ FilterIdle
    /\ ClassifyIdle
    /\ \E t \in {"ebook", "paper"}, q \in QuoteLists, own \in BOOLEAN :
          /\ resources = <<PricedResource(t, Rat(9, 10),
                                          IF own THEN q ELSE <<>>)>>
          /\ crawled = <<IF own THEN <<>> ELSE q>>
    /\ priceComparison = None
    /\ RestIdle

CallGetPriceComparison ==
    /\ pc = "start"
    /\ priceComparison' = getPriceComparison(resources[1], crawled[1])
    /\ resources' = <<priceComparison'.resource>>
    /\ pc' = "getPriceComparison"
    /\ UNCHANGED <<restVars,
                   simVars, freeContents, dupVars, filterVars, classifyVars,
                   crawled>>

QuotesNext == CallGetPriceComparison

SpecQuotes == QuotesInit /\ [][QuotesNext]_vars

-----------------------------------------------------------------------------
(* Specification SpecBatch: batchPriceComparison on a list of resources    *)

MaxResources == 3

\* an available, accessible quote with a preferred payment method
RegionQuote(yuan) ==
    [priceInCNY |-> yuan, available |-> TRUE, chinaAccessible |-> TRUE,
     supportedPayments |-> <<"alipay">>]

\* ebooks of two verdicts, each without a quote, with a quote the crawler
\* finds, or with a quote of its own at 0, 10 or 20 yuan
BatchInputs ==
    {[resource |-> PricedResource("ebook", relevance, priced.own),
      crawled |-> priced.crawled] :
        relevance \in {Rat(9, 10), Rat(5, 10)},
        priced \in {[own |-> <<>>, crawled |-> <<>>],
                    [own |-> <<>>, crawled |-> <<RegionQuote(10)>>],
                    [own |-> <<RegionQuote(0)>>, crawled |-> <<>>],
                    [own |-> <<RegionQuote(10)>>, crawled |-> <<>>],
                    [own |-> <<RegionQuote(20)>>, crawled |-> <<>>]}}

BatchLists == SeqsUpTo(BatchInputs, MaxResources)

BatchInit ==
    /\ pc = "start"
    /\ SimIdle
    /\ freeContents = <<>>
    /\ DupIdle
    /\ FilterIdle
    /\ ClassifyIdle
    /\ \E inputs \in BatchLists :
          /\ resources = [i \in DOMAIN inputs |->
                             [inputs[i].resource EXCEPT !.id = i]]
          /\ crawled = [i \in DOMAIN inputs |-> inputs[i].crawled]
    /\ priceComparison = None
    /\ RestIdle

CallBatchPriceComparison ==
    /\ pc = "start"
    /\ paidComparisons' = batchPriceComparison(resources, crawled)
    /\ resources' = [i \in DOMAIN resources |->
                        getPriceComparison(resources[i], crawled[i]).resource]
    /\ pc' = "batchPriceComparison"
    /\ UNCHANGED <<restVars,
                   simVars, freeContents, dupVars, coverage, filterResult,
                   classifyVars, crawled, priceComparison>>

BatchNext == CallBatchPriceComparison

SpecBatch == BatchInit /\ [][BatchNext]_vars

-----------------------------------------------------------------------------
(* Claims about the price comparison                                       *)

BatchDone == pc = "batchPriceComparison"

\* the place of a verdict in the order of the tiers
TierRank(k) ==
    CASE paidComparisons[k].recommendation = "highly_recommend" -> 0
      [] paidComparisons[k].recommendation = "recommend" -> 1
      [] paidComparisons[k].recommendation = "optional" -> 2
      [] paidComparisons[k].recommendation = "skip" -> 3

HasRegionPrice(k) == paidComparisons[k].bestPriceChina # Null

RegionPrice(k) ==
    paidComparisons[k].allPrices[paidComparisons[k].bestPriceChina].priceInCNY

\* C19: the comparisons come ordered by tier and, within a tier, by
\* ascending region-best price, those without a region price last; a lower
\* region-best price, 0 included, never comes after a higher one of its
\* tier.
C19_SortedByTierThenPrice ==
    BatchDone =>
        \A i, j \in DOMAIN paidComparisons :
            i < j =>
                /\ TierRank(i) <= TierRank(j)
                /\ TierRank(i) = TierRank(j) /\ HasRegionPrice(j) =>
                       /\ HasRegionPrice(i)
                       /\ RegionPrice(i) <= RegionPrice(j)

QuoteDone == pc = "getPriceComparison"

\* the places of allPrices whose quote is available, accessible in the
\* region and payable by alipay, wechat or unionpay
PreferredPlaces ==
    {k \in DOMAIN priceComparison.allPrices :
        /\ priceComparison.allPrices[k].available
        /\ priceComparison.allPrices[k].chinaAccessible
        /\ \E m \in DOMAIN priceComparison.allPrices[k].supportedPayments :
              priceComparison.allPrices[k].supportedPayments[m]
                  \in {"alipay", "wechat", "unionpay"}}

AccessiblePlaces ==
    {k \in DOMAIN priceComparison.allPrices :
        /\ priceComparison.allPrices[k].available
        /\ priceComparison.allPrices[k].chinaAccessible}

AvailablePlaces ==
    {k \in DOMAIN priceComparison.allPrices :
        priceComparison.allPrices[k].available}

\* best is a place of the set with the lowest priceInCNY of the set
LowestOf(best, places) ==
    /\ best \in places
    /\ \A k \in places :
          priceComparison.allPrices[best].priceInCNY
              <= priceComparison.allPrices[k].priceInCNY

\* the quotes handed in: those of the resource, or those of its crawler
QuotesHandedIn ==
    IF resources[1].type \in {"ebook", "audiobook", "course"}
       /\ resources[1].prices = <<>>
    THEN crawled[1]
    ELSE resources[1].prices

BagOf(seq) == [q \in Range(seq) |-> Cardinality({k \in DOMAIN seq : seq[k] = q})]

\* C20: the region-best price is the lowest quote that is available,
\* accessible and payable by a preferred method; without such a quote the
\* lowest available and accessible one; without that, null.  The global
\* best price is the lowest available quote, or null.  The quotes compared
\* are the quotes handed in.
C20_BestPrices ==
    QuoteDone =>
        /\ BagOf(priceComparison.allPrices) = BagOf(QuotesHandedIn)
        /\ IF PreferredPlaces # {}
           THEN LowestOf(priceComparison.bestPriceChina, PreferredPlaces)
           ELSE IF AccessiblePlaces # {}
           THEN LowestOf(priceComparison.bestPriceChina, AccessiblePlaces)
           ELSE priceComparison.bestPriceChina = Null
        /\ IF AvailablePlaces # {}
           THEN LowestOf(priceComparison.bestPrice, AvailablePlaces)
           ELSE priceComparison.bestPrice = Null

\* a cheaper accessible quote without a preferred payment method is passed
\* over for a dearer one with it, and is the global best price
C20_Witness ==
    /\ QuoteDone
    /\ priceComparison.bestPriceChina # Null
    /\ priceComparison.bestPrice # Null
    /\ priceComparison.bestPrice # priceComparison.bestPriceChina
    /\ priceComparison.bestPrice \in AccessiblePlaces
    /\ priceComparison.allPrices[priceComparison.bestPrice].priceInCNY
           < priceComparison.allPrices[priceComparison.bestPriceChina]
                 .priceInCNY

\* C21: getPriceComparison, called on a resource that carries a price list
\* of its own, leaves the resource as it was: resource.prices keeps its
\* order and its content.
C21_ResourceUnchanged ==
    [][(pc = "start" /\ pc' = "getPriceComparison"
            /\ Len(resources[1].prices) > 0)
           => resources' = resources]_vars

-----------------------------------------------------------------------------
(* generateDeduplicationReport                                             *)
(* A text is the sequence of its pieces: the fixed parts of the template   *)
(* literals, the characters of numbers and titles, and "\n" where join     *)
(* puts a line break.                                                      *)

\* the decimal digit of d
Digit(d) == <<"0", "1", "2", "3", "4", "5", "6", "7", "8", "9">>[d + 1]

\* `${n}` for a number n >= 0 without fraction
RECURSIVE ToText(_)
ToText(n) ==
    IF n < 10 THEN <<Digit(n)>> ELSE ToText(n \div 10) \o <<Digit(n % 10)>>

\* array.join(separator) of an array of texts
RECURSIVE Join(_, _)
Join(texts, separator) ==
    IF texts = <<>> THEN <<>>
    ELSE IF Len(texts) = 1 THEN texts[1]
    ELSE texts[1] \o <<separator>> \o Join(Tail(texts), separator)

\* Array.from(set): the values of the set, here in some order
ArrayFrom(set) ==
    CHOOSE seq \in [1..Cardinality(set) -> set] :
        \A v \in set : \E k \in DOMAIN seq : seq[k] = v

\* names.join(', ') || 'none'
NamesOrNone(names) ==
    IF Join([k \in DOMAIN names |-> <<names[k]>>], ", ") = <<>>
    THEN <<"none">>
    ELSE Join([k \in DOMAIN names |-> <<names[k]>>], ", ")

\* the 14 lines of the array literal
ReportHead(result, cov) ==
    << <<"## paid resource report">>,
       <<>>,
       <<"### free content coverage">>,
       <<"- total: ">> \o ToText(cov.totalCount),
       <<"- primary (P1+P2): ">>
           \o ToText(cov.byPriority[1] + cov.byPriority[2])
           \o <<" items">>,
       <<"- covered types: ">> \o NamesOrNone(ArrayFrom(cov.coveredTypes)),
       <<"- missing high-priority types: ">>
           \o NamesOrNone(cov.missingHighPriorityTypes),
       <<>>,
       <<"### paid resources filtered">>,
       <<"- searched: ">> \o ToText(result.stats.totalSearched)
           \o <<" paid resources">>,
       <<"- duplicates of free content: ">>
           \o ToText(result.stats.duplicateCount),
       <<"- skipped for priority: ">>
           \o ToText(result.stats.lowPrioritySkipped),
       <<"- recommended: ">> \o ToText(result.stats.recommendedCount),
       <<>> >>

\* the number of filtered entries shown
ExampleLimit == 5

\* a faulty variant of Examples: every filtered entry is shown
ExamplesUnsliced(filtered) == filtered

\* result.filtered.slice(0, 5)
Examples(filtered) ==
    SubSeq(filtered, 1,
           IF Len(filtered) < ExampleLimit THEN Len(filtered)
           ELSE ExampleLimit)

\* `${i + 1}. **${f.resource.title}** - ${f.reason}`
ExampleLine(f, i) ==
    ToText(i + 1) \o <<". **">> \o f.resource.title \o <<"** - ">> \o f.reason

\* `... and ${result.filtered.length - 5} more`
RemainderLine(filtered) ==
    <<"... and ">> \o ToText(Len(filtered) - ExampleLimit) \o <<" more">>

\* the lines pushed under if (result.filtered.length > 0)
FilteredSection(filtered) ==
    IF Len(filtered) > 0
    THEN << <<"### filtered resources">> >>
         \o [k \in DOMAIN Examples(filtered) |->
                ExampleLine(Examples(filtered)[k], k - 1)]
         \o (IF Len(filtered) > ExampleLimit
             THEN <<RemainderLine(filtered)>>
             ELSE <<>>)
         \o << <<>> >>
    ELSE <<>>

generateDeduplicationReport(result, cov) ==
    Join(ReportHead(result, cov) \o FilteredSection(result.filtered), "\n")

-----------------------------------------------------------------------------
(* Specification SpecReport: generateDeduplicationReport on a filter       *)
(* result and a coverage                                                   *)

MaxFiltered == 6

\* a filtered entry: a duplicate or a skipped resource; the reason is the
\* text the filter gave, its number written out
ReportEntry(duplicate) ==
    IF duplicate
    THEN [resource |-> [title |-> tMyLife, type |-> "ebook", priority |-> 2],
          reason |-> <<"duplicate of free content",
                       "similar work of the same author">>,
          matchedFreeContent |-> 1]
    ELSE [resource |-> [title |-> tX, type |-> "course", priority |-> 3],
          reason |-> <<"enough primary content, skipping priority", "3">>,
          matchedFreeContent |-> Null]

\* a recommended comparison
ReportRecommended ==
    [resource |-> [title |-> tLifeZh, type |-> "ebook", priority |-> 1],
     recommendation |-> "recommend", recommendationReason |-> <<>>]

\* the result filterPaidResources returns for candidates that end as told
ReportResult(duplicates, recommendedCount) ==
    [recommended |-> [k \in 1..recommendedCount |-> ReportRecommended],
     filtered |-> [k \in DOMAIN duplicates |-> ReportEntry(duplicates[k])],
     stats |->
        [totalSearched |-> Len(duplicates) + recommendedCount,
         duplicateCount |->
             Cardinality({k \in DOMAIN duplicates : duplicates[k]}),
         lowPrioritySkipped |->
             Cardinality({k \in DOMAIN duplicates : ~duplicates[k]}),
         recommendedCount |-> recommendedCount]]

\* the coverage of an empty corpus and that of twelve primary tweets
ReportCoverage(primary) ==
    IF primary
    THEN analyzeFreeContentCoverage(
             Repeat([title |-> Undefined, content |-> tLifeWords,
                     author |-> Undefined, type |-> "tweet",
                     priority |-> 1], 7)
             \o Repeat([title |-> Undefined, content |-> tLifeWords,
                        author |-> Undefined, type |-> "tweet",
                        priority |-> 2], 5))
    ELSE analyzeFreeContentCoverage(<<>>)

ReportInit ==
    /\ pc = "start"
    /\ SimIdle
    /\ freeContents = <<>>
    /\ DupIdle
    /\ paidComparisons = <<>>
    /\ \E duplicates \in SeqsUpTo(BOOLEAN, MaxFiltered),
          recommendedCount \in 0..1, primary \in BOOLEAN :
           /\ filterResult = ReportResult(duplicates, recommendedCount)
           /\ coverage = ReportCoverage(primary)
    /\ ClassifyIdle
    /\ PriceIdle
    /\ LookupIdle
    /\ report = None
    /\ CrawlIdle

CallGenerateDeduplicationReport ==
    /\ pc = "start"
    /\ report' = generateDeduplicationReport(filterResult, coverage)
    /\ pc' = "generateDeduplicationReport"
    /\ UNCHANGED <<simVars, freeContents, dupVars, filterVars, classifyVars,
                   priceVars, lookupVars, crawlVars>>

ReportNext == CallGenerateDeduplicationReport

SpecReport == ReportInit /\ [][ReportNext]_vars

-----------------------------------------------------------------------------
(* Further claims about isDuplicateContent                                 *)

\* Specification SpecPermute: isDuplicateContent on the corpora whose order
\* is then changed: a candidate titled "My Life", with or without preview
\* and author, against items with an equal, a longer or another title
PermuteItems ==
    [title : {tMyLife, tMyLifeStory, tX},
     content : {tMyLifeWords, tLifeWords},
     author : {Undefined, aJaneDoeLower},
     type : {"other"},
     priority : {4}]

PermuteInit ==
    /\ pc = "start"
    /\ SimIdle
    /\ \E preview \in {Undefined, tMyLifeWords},
          author \in {Undefined, aJaneDoe} :
           paidResource =
               [title |-> tMyLife, titleZh |-> Undefined,
                preview |-> preview, author |-> author, type |-> "ebook",
                priority |-> 2, relevanceScore |-> Rat(9, 10)]
    /\ freeContents \in SeqsUpTo(PermuteItems, MaxCorpus)
    /\ dupeCheck = None
    /\ FilterIdle
    /\ ClassifyIdle
    /\ PriceIdle
    /\ RestIdle

SpecPermute == PermuteInit /\ [][DupNext]_vars

\* the corpus with its items in the order f, a permutation of its places
Reordered(f) == [k \in DOMAIN freeContents |-> freeContents[f[k]]]

\* a check says what isDuplicateContent returned: duplicate or not, and the
\* same score
SameVerdict(check) ==
    /\ check.isDuplicate = dupeCheck.isDuplicate
    /\ REq(check.similarityScore, dupeCheck.similarityScore)

\* C25: isDuplicate and similarityScore do not depend on the order of the
\* corpus: isDuplicateContent on any permutation of the corpus returns the
\* two values it returned on the corpus.
C25_VerdictIgnoresCorpusOrder ==
    DupDone =>
        \A f \in Permutations(DOMAIN freeContents) :
            SameVerdict(isDuplicateContent(paidResource, Reordered(f)))

\* a corpus of two different items, the second of which makes the
\* candidate a duplicate while the first alone would not
C25_Witness ==
    /\ DupDone
    /\ Len(freeContents) = 2
    /\ freeContents[1] # freeContents[2]
    /\ dupeCheck.isDuplicate
    /\ dupeCheck.matchedContent = 2
    /\ ~isDuplicateContent(paidResource, <<freeContents[1]>>).isDuplicate

-----------------------------------------------------------------------------
(* Further claims about filterPaidResources                                *)

\* the places of a result list that hold the i-th candidate
PlacesOf(list, i) == {k \in DOMAIN list : list[k].resource.id = i}

\* the entries of a result list stand in the order of the candidates
InInputOrder(list) ==
    \A k, l \in DOMAIN list :
        k < l => list[k].resource.id < list[l].resource.id

\* C24: the two result lists partition the candidates: each candidate is
\* once in recommended or once in filtered, never in both; filtered is as
\* long as duplicateCount + lowPrioritySkipped and recommended as long as
\* recommendedCount; both lists keep the order of the candidates.
C24_ResultPartitionsInput ==
    FilterDone =>
        /\ \A i \in DOMAIN paidComparisons :
              Cardinality(PlacesOf(filterResult.recommended, i))
                  + Cardinality(PlacesOf(filterResult.filtered, i)) = 1
        /\ Len(filterResult.filtered)
             = filterResult.stats.duplicateCount
                 + filterResult.stats.lowPrioritySkipped
        /\ Len(filterResult.recommended)
             = filterResult.stats.recommendedCount
        /\ Len(filterResult.recommended) + Len(filterResult.filtered)
             = Len(paidComparisons)
        /\ InInputOrder(filterResult.recommended)
        /\ InInputOrder(filterResult.filtered)

\* two candidates are recommended, or two are filtered, one of these as a
\* duplicate
C24_Witness ==
    /\ FilterDone
    /\ Len(paidComparisons) = 2
    /\ \/ Len(filterResult.recommended) = 2
       \/ /\ Len(filterResult.filtered) = 2
          /\ filterResult.stats.duplicateCount = 1

\* the four seed verdicts of generateRecommendation
Verdicts == {"highly_recommend", "recommend", "optional", "skip"}

\* the i-th candidate with another seed verdict and another seed reason
WithVerdict(i, verdict) ==
    [paidComparisons[i] EXCEPT !.recommendation = verdict,
                               !.recommendationReason = <<"other reason">>]

\* filterPaidResources puts the comparison, handed in alone with the corpus
\* and the coverage of the state, in recommended
AloneRecommended(comparison) ==
    Len(filterPaidResources(<<comparison>>, freeContents, coverage)
            .recommended) = 1

\* the verdict the i-th candidate carries in recommended
VerdictInRecommended(i) ==
    filterResult.recommended[
        CHOOSE k \in DOMAIN filterResult.recommended :
            filterResult.recommended[k].resource.id = i].recommendation

\* C26: whether a candidate ends in recommended does not depend on its seed
\* verdict: with any other seed verdict and reason, the same corpus and the
\* same coverage, the decision is the same; so a candidate that is no
\* duplicate, has priority <= 2 and the seed verdict skip is in recommended,
\* with the verdict skip.
C26_InclusionIgnoresSeedVerdict ==
    FilterDone =>
        \A i \in DOMAIN paidComparisons :
            /\ \A verdict \in Verdicts :
                  AloneRecommended(WithVerdict(i, verdict)) <=> InRecommended(i)
            /\ (/\ ~IsDuplicate(i)
                /\ paidComparisons[i].resource.priority <= 2
                /\ paidComparisons[i].recommendation = "skip")
                   => /\ InRecommended(i)
                      /\ VerdictInRecommended(i) = "skip"

\* a candidate of priority 2 with the seed verdict skip, no duplicate, in
\* recommended
C26_Witness ==
    /\ FilterDone
    /\ \E i \in DOMAIN paidComparisons :
          /\ ~IsDuplicate(i)
          /\ paidComparisons[i].resource.priority <= 2
          /\ paidComparisons[i].recommendation = "skip"
          /\ InRecommended(i)
          /\ VerdictInRecommended(i) = "skip"

\* the seed verdict of the candidate that entry k of recommended stems from
SeedVerdict(k) ==
    paidComparisons[filterResult.recommended[k].resource.id].recommendation

\* entry k of recommended carries the reason of a downgrade
Downgraded(k) ==
    \/ filterResult.recommended[k].recommendationReason = SupplementReason
    \/ filterResult.recommended[k].recommendationReason = NotNeededReason

\* C27: with hasEnoughPrimaryContent every entry of recommended has
\* priority <= 2; so the downgrade of step 4 is never applied, and no entry
\* of recommended carries a verdict weaker than its seed verdict.
C27_NoDowngrade ==
    FilterDone =>
        \A k \in DOMAIN filterResult.recommended :
            /\ coverage.hasEnoughPrimaryContent
                  => filterResult.recommended[k].resource.priority <= 2
            /\ ~Downgraded(k)
            /\ RecommendOrder(filterResult.recommended[k].recommendation)
                  <= RecommendOrder(SeedVerdict(k))

\* enough primary content, a candidate of priority 3 seeded highly_recommend
\* is filtered, one of priority 2 is recommended with its seed verdict
C27_Witness ==
    /\ FilterDone
    /\ coverage.hasEnoughPrimaryContent
    /\ \E i, j \in DOMAIN paidComparisons :
          /\ paidComparisons[i].resource.priority = 3
          /\ paidComparisons[i].recommendation = "highly_recommend"
          /\ InFiltered(i)
          /\ paidComparisons[j].resource.priority = 2
          /\ InRecommended(j)
          /\ VerdictInRecommended(j) = paidComparisons[j].recommendation

-----------------------------------------------------------------------------
(* Specification SpecGap: the coverage analysis and the filter as the      *)
(* paid-resources route runs them, on corpora over every ContentType       *)

\* a corpus item of the given content type, with nothing a candidate could
\* repeat
GapItem(contentType) ==
    [title |-> Undefined, content |-> tLifeWords, author |-> Undefined,
     type |-> contentType, priority |-> 1]

\* a candidate of the given paid type, seeded recommend
GapCandidate(paidType) ==
    [resource |-> [id |-> 1, title |-> tMyLife, titleZh |-> Undefined,
                   preview |-> Undefined, author |-> Undefined,
                   type |-> paidType, priority |-> 2,
                   relevanceScore |-> Rat(8, 10)],
     recommendation |-> "recommend",
     recommendationReason |-> <<"seed reason">>]

\* corpora of up to MaxCorpus items of any content type, alone or followed
\* by MaxRun biographies or autobiographies
GapInit ==
    /\ pc = "start"
    /\ SimIdle
    /\ DupIdle
    /\ \E types \in SeqsUpTo(ContentTypes, MaxCorpus),
          life \in {"biography", "autobiography"}, run \in {0, MaxRun} :
           freeContents = [k \in DOMAIN types |-> GapItem(types[k])]
                              \o Repeat(GapItem(life), run)
    /\ \E paidType \in {"ebook", "audiobook", "course"} :
           paidComparisons = <<GapCandidate(paidType)>>
    /\ coverage = None
    /\ filterResult = None
    /\ ClassifyIdle
    /\ PriceIdle
    /\ RestIdle

\* const coverage = analyzeFreeContentCoverage(freeContents);
\* const filterResult = filterPaidResources(allComparisons, freeContents,
\*                                          coverage)
CallAnalyzeAndFilter ==
    /\ pc = "start"
    /\ coverage' = analyzeFreeContentCoverage(freeContents)
    /\ filterResult' = filterPaidResources(paidComparisons, freeContents,
                                           coverage')
    /\ pc' = "analyze and filter"
    /\ UNCHANGED <<simVars, dupVars, freeContents, paidComparisons,
                   classifyVars, priceVars, restVars>>

GapNext == CallAnalyzeAndFilter

SpecGap == GapInit /\ [][GapNext]_vars

GapDone == pc = "analyze and filter"

\* the content types of the corpus
CorpusTypes == {freeContents[k].type : k \in DOMAIN freeContents}

\* the candidate came out of the filter raised to highly_recommend with the
\* note of the gap it fills
RaisedForGap ==
    /\ Len(filterResult.recommended) = 1
    /\ filterResult.recommended[1].recommendation = "highly_recommend"
    /\ Len(filterResult.recommended[1].recommendationReason) = 3
    /\ filterResult.recommended[1].recommendationReason[2] = "book"

\* C28: for a corpus whose items carry types of ContentType, book and
\* podcast are always among missingHighPriorityTypes, so an ebook or an
\* audiobook candidate always fills a gap, however many biographies or
\* autobiographies the corpus holds.
C28_BookAlwaysMissing ==
    GapDone =>
        /\ \E k \in DOMAIN coverage.missingHighPriorityTypes :
              coverage.missingHighPriorityTypes[k] = "book"
        /\ \E k \in DOMAIN coverage.missingHighPriorityTypes :
              coverage.missingHighPriorityTypes[k] = "podcast"
        /\ paidComparisons[1].resource.type \in {"ebook", "audiobook"}
              => RaisedForGap

\* an audiobook against a corpus of enough primary content that holds
\* biographies and autobiographies
C28_Witness ==
    /\ GapDone
    /\ paidComparisons[1].resource.type = "audiobook"
    /\ {"biography", "autobiography"} \subseteq CorpusTypes
    /\ Len(freeContents) > MaxRun
    /\ coverage.hasEnoughPrimaryContent
    /\ RaisedForGap

-----------------------------------------------------------------------------
(* Claims about comparePrices                                              *)

LookupDone == pc \in {"comparePrices", "comparePrices threw"}

\* the platforms whose lookup returned a price
Succeeded == {k \in DOMAIN lookups : lookups[k].outcome.ends = "price"}

\* the yuan of a price at the fixed rates, in tenths
TenthsOfYuan(price) ==
    IF price.currency = "USD" THEN 72 * price.price
    ELSE IF price.currency = "EUR" THEN 78 * price.price
    ELSE IF price.currency = "GBP" THEN 91 * price.price
    ELSE 10 * price.price

\* C22: a lookup that throws counts as no price from its platform:
\* comparePrices does not throw, queries every platform, and returns the
\* prices of exactly the platforms whose lookup returned one, each once,
\* in ascending order of priceInCNY.
C22_OutageIsNoPrice ==
    LookupDone =>
        /\ pc = "comparePrices"
        /\ \A k \in DOMAIN lookups : lookups[k].queried
        /\ Len(crawled[1]) = Cardinality(Succeeded)
        /\ \A k \in Succeeded :
              \E j \in DOMAIN crawled[1] :
                  /\ crawled[1][j].platform = k
                  /\ crawled[1][j].price = lookups[k].outcome.price.price
                  /\ crawled[1][j].currency = lookups[k].outcome.price.currency
                  /\ crawled[1][j].priceInCNY.n * 10
                        = TenthsOfYuan(crawled[1][j]) * crawled[1][j].priceInCNY.d
        /\ \A i, j \in DOMAIN crawled[1] :
              i < j => TenthsOfYuan(crawled[1][i]) <= TenthsOfYuan(crawled[1][j])

\* the first platform quotes 40 yuan, the second throws, the third quotes
\* 5 yuan: both quotes come back, the cheaper first
C22_Witness ==
    /\ pc = "comparePrices"
    /\ Len(lookups) = 3
    /\ lookups[1].outcome.ends = "price"
    /\ lookups[2].outcome.ends = "throws"
    /\ lookups[3].outcome.ends = "price"
    /\ lookups[3].queried
    /\ Len(crawled[1]) = 2
    /\ crawled[1][1].platform = 3
    /\ crawled[1][2].platform = 1

-----------------------------------------------------------------------------
(* Claims about generateDeduplicationReport                                *)

ReportDone == pc = "generateDeduplicationReport"

\* the lines of a text: what stands between its line breaks
RECURSIVE LinesOf(_)
LinesOf(text) ==
    IF \A k \in DOMAIN text : text[k] # "\n"
    THEN <<text>>
    ELSE <<SubSeq(text, 1,
                  (CHOOSE k \in DOMAIN text :
                       /\ text[k] = "\n"
                       /\ \A j \in 1..(k - 1) : text[j] # "\n") - 1)>>
         \o LinesOf(SubSeq(text,
                           (CHOOSE k \in DOMAIN text :
                                /\ text[k] = "\n"
                                /\ \A j \in 1..(k - 1) : text[j] # "\n") + 1,
                           Len(text)))

DigitValue(c) ==
    CASE c = "0" -> 0 [] c = "1" -> 1 [] c = "2" -> 2 [] c = "3" -> 3
      [] c = "4" -> 4 [] c = "5" -> 5 [] c = "6" -> 6 [] c = "7" -> 7
      [] c = "8" -> 8 [] c = "9" -> 9

IsDigit(c) == c \in {"0", "1", "2", "3", "4", "5", "6", "7", "8", "9"}

\* the number a sequence of digits writes
RECURSIVE ValueOf(_)
ValueOf(digits) ==
    IF digits = <<>> THEN 0
    ELSE 10 * ValueOf(SubSeq(digits, 1, Len(digits) - 1))
             + DigitValue(digits[Len(digits)])

\* line k of the report reads: label, a number, perhaps a unit
ReadsCount(k, label, count) ==
    /\ LinesOf(report)[k][1] = label
    /\ SelectSeq(LinesOf(report)[k], IsDigit) # <<>>
    /\ ValueOf(SelectSeq(LinesOf(report)[k], IsDigit)) = count

\* the number of filtered entries listed
Listed ==
    IF Len(filterResult.filtered) < 5 THEN Len(filterResult.filtered) ELSE 5

\* line 15 + k lists filtered entry k: its place, its title and its reason
ListsEntry(k) ==
    LinesOf(report)[15 + k] =
        <<Digit(k), ". **">> \o filterResult.filtered[k].resource.title
            \o <<"** - ">> \o filterResult.filtered[k].reason

\* C23: the report reproduces the counts of its inputs: the coverage total,
\* the tier-1 plus tier-2 count and the four filter counters; it lists the
\* first min(5, filtered.length) filtered entries in order with title and
\* reason; it has a remainder line, stating filtered.length - 5, exactly
\* when filtered.length > 5; without filtered entries it has no filtered
\* section.
C23_ReportReproducesCounts ==
    ReportDone =>
        /\ ReadsCount(4, "- total: ", coverage.totalCount)
        /\ ReadsCount(5, "- primary (P1+P2): ",
                      coverage.byPriority[1] + coverage.byPriority[2])
        /\ ReadsCount(10, "- searched: ", filterResult.stats.totalSearched)
        /\ ReadsCount(11, "- duplicates of free content: ",
                      filterResult.stats.duplicateCount)
        /\ ReadsCount(12, "- skipped for priority: ",
                      filterResult.stats.lowPrioritySkipped)
        /\ ReadsCount(13, "- recommended: ",
                      filterResult.stats.recommendedCount)
        /\ LinesOf(report)[14] = <<>>
        /\ IF Len(filterResult.filtered) = 0
           THEN Len(LinesOf(report)) = 14
           ELSE /\ LinesOf(report)[15] = <<"### filtered resources">>
                /\ \A k \in 1..Listed : ListsEntry(k)
                /\ IF Len(filterResult.filtered) > 5
                   THEN /\ Len(LinesOf(report)) = 15 + Listed + 2
                        /\ ReadsCount(15 + Listed + 1, "... and ",
                                      Len(filterResult.filtered) - 5)
                   ELSE Len(LinesOf(report)) = 15 + Listed + 1
                /\ LinesOf(report)[Len(LinesOf(report))] = <<>>

\* six filtered entries, duplicates and skipped ones, and a coverage of
\* twelve primary items: five entries and a remainder of one
C23_Witness ==
    /\ ReportDone
    /\ Len(filterResult.filtered) = 6
    /\ filterResult.stats.duplicateCount = 4
    /\ filterResult.stats.lowPrioritySkipped = 2
    /\ filterResult.stats.recommendedCount = 1
    /\ coverage.totalCount = 12
    /\ Len(LinesOf(report)) = 22

-----------------------------------------------------------------------------
(* Bounds of the crawl specifications                                      *)

MaxRequests == 2

MaxSources == 2

\* the items a crawler yields at most
MaxItems == 1

\* the sources asked for
CrawlSources == {"twitter", "wikipedia"}

-----------------------------------------------------------------------------
(* The crawl route: POST and startCrawling                                 *)
(* A task is its place in the crawlTask table, and logs[t] the crawlLog    *)
(* rows of task t; freeContents is the content table.  A runner is one     *)
(* request: POST creates its tasks and starts startCrawling, which runs on *)
(* by one database call per step.  Calls that only write rows no runner    *)
(* reads (logs, content, progress) are taken together with the call they   *)
(* follow.                                                                 *)

\* the request as POST receives it, before any task is created
Runner(celebrityId, sources) ==
    [celebrityId |-> celebrityId, sources |-> sources, at |-> "POST",
     created |-> 0, i |-> 0, task |-> Null, itemsCrawled |-> 0]

\* prisma.crawlTask.create({data: {celebrityId, source, status: 'pending'}})
NewTask(celebrityId, dataSource) ==
    [celebrityId |-> celebrityId, source |-> dataSource,
     status |-> "pending", progress |-> 0]

\* where: {celebrityId, source, status: 'pending'}
PendingTasks(celebrityId, dataSource) ==
    {t \in DOMAIN tasks :
        /\ tasks[t].celebrityId = celebrityId
        /\ tasks[t].source = dataSource
        /\ tasks[t].status = "pending"}

\* for (const source of sources): on to the next source, or out of the loop
NextSource(runner) ==
    IF runner.i < Len(runner.sources)
    THEN [runner EXCEPT !.i = @ + 1, !.at = "findFirst", !.task = Null,
                        !.itemsCrawled = 0]
    ELSE [runner EXCEPT !.at = "done", !.task = Null, !.itemsCrawled = 0]

\* a faulty variant of AfterCatch: the error leaves startCrawling
AfterCatchRethrown(runner) ==
    [runner EXCEPT !.at = "done", !.task = Null, !.itemsCrawled = 0]

\* the end of the catch block: the loop goes on
AfterCatch(runner) == NextSource(runner)

\* const task = await prisma.crawlTask.findFirst(...), a task found
Found(runner, t) == [runner EXCEPT !.at = "update running", !.task = t]

\* logger.info, logger.error, logger.success: a row of the task's log
Logged(t, level, message) ==
    [logs EXCEPT ![t] = Append(@, <<level, message>>)]

\* the ContentItem a crawler yields, as prisma.content.create stores it
ContentRow(celebrityId, dataSource) ==
    [celebrityId |-> celebrityId, source |-> dataSource, title |-> Undefined,
     content |-> tLifeWords, author |-> Undefined, type |-> "other",
     priority |-> 4]

\* prisma.content.create: the table with the row; the table has no order of
\* its own and is kept by celebrity, the rows of a celebrity as they came
Stored(table, row) ==
    SelectSeq(table, LAMBDA x : x.celebrityId <= row.celebrityId)
        \o <<row>>
        \o SelectSeq(table, LAMBDA x : x.celebrityId > row.celebrityId)

\* the other variables of the module
NoCrawlVars ==
    <<pc, simVars, dupVars, filterVars, classifyVars, priceVars, lookupVars,
      reportVars>>

\* POST: one of the prisma.crawlTask.create calls of Promise.all
CreateTask(r) ==
    /\ r \in DOMAIN runners
    /\ runners[r].at = "POST"
    /\ runners[r].created < Len(runners[r].sources)
    /\ tasks' = Append(tasks,
                       NewTask(runners[r].celebrityId,
                               runners[r].sources[runners[r].created + 1]))
    /\ logs' = Append(logs, <<>>)
    /\ runners' = [runners EXCEPT ![r].created = @ + 1]
    /\ UNCHANGED <<NoCrawlVars, freeContents>>

\* POST: every task is created, startCrawling(...) is called
StartCrawling(r) ==
    /\ r \in DOMAIN runners
    /\ runners[r].at = "POST"
    /\ runners[r].created = Len(runners[r].sources)
    /\ runners' = [runners EXCEPT ![r] = NextSource(@)]
    /\ UNCHANGED <<NoCrawlVars, freeContents, tasks, logs>>

\* findFirst answers: any pending task of the celebrity and the source, for
\* no order is asked; without one, continue
FindTask(r) ==
    /\ r \in DOMAIN runners
    /\ runners[r].at = "findFirst"
    /\ IF PendingTasks(runners[r].celebrityId,
                       runners[r].sources[runners[r].i]) = {}
       THEN runners' = [runners EXCEPT ![r] = NextSource(@)]
       ELSE \E t \in PendingTasks(runners[r].celebrityId,
                                  runners[r].sources[runners[r].i]) :
                runners' = [runners EXCEPT ![r] = Found(@, t)]
    /\ UNCHANGED <<NoCrawlVars, freeContents, tasks, logs>>

\* update({where: {id: task.id}, data: {status: 'running', ...}})
ClaimTask(r) ==
    /\ r \in DOMAIN runners
    /\ runners[r].at = "update running"
    /\ tasks' = [tasks EXCEPT ![runners[r].task].status = "running"]
    /\ runners' = [runners EXCEPT ![r].at = "validate"]
    /\ UNCHANGED <<NoCrawlVars, freeContents, logs>>

\* getCrawler and crawler.validateConfig: the crawler is there and the
\* config valid, the config is invalid, or getCrawler throws
Validate(r) ==
    /\ r \in DOMAIN runners
    /\ runners[r].at = "validate"
    /\ \E outcome \in {"valid", "invalid", "throws"} :
          /\ logs' = CASE outcome = "valid" ->
                            Logged(runners[r].task, "info", "start")
                       [] outcome = "invalid" ->
                            Logged(runners[r].task, "error", "invalid config")
                       [] outcome = "throws" -> logs
          /\ runners' = [runners EXCEPT
                            ![r].at = IF outcome = "valid" THEN "crawl"
                                      ELSE "catch"]
    /\ UNCHANGED <<NoCrawlVars, freeContents, tasks>>

\* the body of for await: content.create, logger.info and the update of
\* itemsCrawled and progress
CrawlItem(r) ==
    /\ r \in DOMAIN runners
    /\ runners[r].at = "crawl"
    /\ runners[r].itemsCrawled < MaxItems
    /\ freeContents' = Stored(freeContents,
                              ContentRow(runners[r].celebrityId,
                                         runners[r].sources[runners[r].i]))
    /\ logs' = Logged(runners[r].task, "info", "item")
    /\ tasks' = [tasks EXCEPT ![runners[r].task].progress =
                                  runners[r].itemsCrawled + 1]
    /\ runners' = [runners EXCEPT ![r].itemsCrawled = @ + 1]
    /\ UNCHANGED NoCrawlVars

\* crawler.crawl throws
CrawlThrows(r) ==
    /\ r \in DOMAIN runners
    /\ runners[r].at = "crawl"
    /\ runners' = [runners EXCEPT ![r].at = "catch"]
    /\ UNCHANGED <<NoCrawlVars, freeContents, tasks, logs>>

\* crawler.crawl is exhausted: update status 'completed', logger.success
CompleteTask(r) ==
    /\ r \in DOMAIN runners
    /\ runners[r].at = "crawl"
    /\ tasks' = [tasks EXCEPT ![runners[r].task].status = "completed"]
    /\ logs' = Logged(runners[r].task, "success", "completed")
    /\ runners' = [runners EXCEPT ![r] = NextSource(@)]
    /\ UNCHANGED <<NoCrawlVars, freeContents>>

\* catch (error): logger.error, update status 'failed'
FailTask(r) ==
    /\ r \in DOMAIN runners
    /\ runners[r].at = "catch"
    /\ logs' = Logged(runners[r].task, "error", "failed")
    /\ tasks' = [tasks EXCEPT ![runners[r].task].status = "failed"]
    /\ runners' = [runners EXCEPT ![r] = AfterCatch(@)]
    /\ UNCHANGED <<NoCrawlVars, freeContents>>

RunnerStep(r) ==
    \/ CreateTask(r)
    \/ StartCrawling(r)
    \/ FindTask(r)
    \/ ClaimTask(r)
    \/ Validate(r)
    \/ CrawlItem(r)
    \/ CrawlThrows(r)
    \/ CompleteTask(r)
    \/ FailTask(r)

CrawlNext == \E r \in 1..MaxRequests : RunnerStep(r)

\* the event loop runs every continuation that is ready
CrawlFairness == \A r \in 1..MaxRequests : WF_vars(RunnerStep(r))

\* no other part of the module is in use
CrawlOnly ==
    /\ pc = "start"
    /\ SimIdle
    /\ freeContents = <<>>
    /\ DupIdle
    /\ FilterIdle
    /\ ClassifyIdle
    /\ PriceIdle
    /\ LookupIdle
    /\ ReportIdle
    /\ tasks = <<>>
    /\ logs = <<>>

-----------------------------------------------------------------------------
(* Specification SpecCrawl: requests for different celebrities             *)

\* a request for celebrity 1 that asks for up to MaxSources sources, or a
\* request for one source beside a request for celebrity 2
CrawlInit ==
    /\ CrawlOnly
    /\ \/ \E sources \in SeqsUpTo(CrawlSources, MaxSources) \ {<<>>} :
              runners = <<Runner(1, sources)>>
       \/ \E dataSource \in CrawlSources :
              runners = <<Runner(1, <<dataSource>>), Runner(2, <<"twitter">>)>>

SpecCrawl == CrawlInit /\ [][CrawlNext]_vars /\ CrawlFairness

-----------------------------------------------------------------------------
(* Specification SpecRace: requests for the same celebrity and source      *)

RaceInit ==
    /\ CrawlOnly
    /\ \E dataSource \in CrawlSources :
          runners = [k \in 1..MaxRequests |-> Runner(1, <<dataSource>>)]

SpecRace == RaceInit /\ [][CrawlNext]_vars /\ CrawlFairness

-----------------------------------------------------------------------------
(* Claims about the crawl route                                            *)

\* the moves of a task's status that the route intends
StatusMoves ==
    {<<"pending", "running">>, <<"running", "completed">>,
     <<"running", "failed">>}

\* the tasks whose status a step changes
Moved == {t \in DOMAIN tasks : tasks'[t].status # tasks[t].status}

\* a step moves at most one task, along an intended move, and a task it
\* creates is pending
StatusStep ==
    /\ Cardinality(Moved) <= 1
    /\ \A t \in Moved : <<tasks[t].status, tasks'[t].status>> \in StatusMoves
    /\ \A t \in DOMAIN tasks' \ DOMAIN tasks : tasks'[t].status = "pending"

\* the tasks of a celebrity
TasksOf(celebrityId) ==
    {t \in DOMAIN tasks : tasks[t].celebrityId = celebrityId}

\* the places of a source in the request of runner r
Places(r, dataSource) ==
    {k \in DOMAIN runners[r].sources : runners[r].sources[k] = dataSource}

\* of the tasks of request r at most one is running, and none is pending
\* whose source stands in the request only before the source of a task
\* that has been taken up
OneByOneInOrder(r) ==
    /\ Cardinality({t \in TasksOf(runners[r].celebrityId) :
                        tasks[t].status = "running"}) <= 1
    /\ \A t1, t2 \in TasksOf(runners[r].celebrityId) :
          (tasks[t1].status # "pending" /\ tasks[t2].status = "pending")
              => \E k1 \in Places(r, tasks[t1].source),
                    k2 \in Places(r, tasks[t2].source) : k1 <= k2

\* every task asked for is created and is completed or failed
Settled ==
    /\ \A r \in DOMAIN runners :
          Cardinality(TasksOf(runners[r].celebrityId))
              = Len(runners[r].sources)
    /\ \A t \in DOMAIN tasks : tasks[t].status \in {"completed", "failed"}

\* C29: in a request with no concurrent request for its celebrity, every
\* task moves pending -> running -> completed or failed, one task of the
\* request at a time and in the order of the requested sources; a failure
\* moves that task alone, the later sources are still processed, and in the
\* end every task is completed or failed.
C29_EveryTaskSettles ==
    /\ [][StatusStep]_vars
    /\ [](\A r \in DOMAIN runners : OneByOneInOrder(r))
    /\ <>[]Settled

\* the first of two sources failed, the second was crawled and completed
C29_Witness ==
    /\ Len(runners[1].sources) = 2
    /\ runners[1].at = "done"
    /\ \E t1, t2 \in TasksOf(1) :
          /\ tasks[t1].source = runners[1].sources[1]
          /\ tasks[t1].status = "failed"
          /\ tasks[t2].source = runners[1].sources[2]
          /\ tasks[t2].status = "completed"
          /\ tasks[t2].progress = 1

\* a runner that moves a task to running finds it pending
ClaimsArePending ==
    \A r \in DOMAIN runners :
        (runners[r].at = "update running" /\ runners'[r].at = "validate")
            => tasks[runners[r].task].status = "pending"

\* a task that is completed or failed keeps its status
SettledIsFinal ==
    \A t \in DOMAIN tasks :
        tasks[t].status \in {"completed", "failed"}
            => tasks'[t].status = tasks[t].status

\* every task asked for is created and none is pending
NonePending ==
    /\ Len(tasks) = Len(runners)
    /\ \A t \in DOMAIN tasks : tasks[t].status # "pending"

\* C30: with concurrent requests for the same celebrity and the same
\* source, each pending task is moved to running by at most one runner, no
\* task changes its status once it is completed or failed, and no created
\* task stays pending for ever.
C30_TasksClaimedOnce ==
    /\ [][ClaimsArePending /\ SettledIsFinal]_vars
    /\ <>[]NonePending

=============================================================================
